---- MODULE Spec2Model ----
(***************************************************************************)
(* Wedding-day logistics: check-in confirmations (wake / depart / arrive), *)
(* trip grouping, deadline computation and the overdue-alert evaluator of  *)
(* src/app/main.py, over the tables of src/app/models.py.                  *)
(*                                                                         *)
(* Time: a datetime is an integer number of minutes, date*1440 + minutes   *)
(* of the day; a date is a day number; a time of day is 0..1439.           *)
(* None is Null (-1) for numbers and "" for names.                         *)
(***************************************************************************)
EXTENDS Integers, FiniteSets, Sequences, TLC

VARIABLES now, schedules, photographers, checkins, routes, halls, confirmed,
          reqs

vars == <<now, schedules, photographers, checkins, routes, halls, confirmed, reqs>>

(* ------------------------------ bounds -------------------------------- *)
MaxTicks == 1

(* --------------------------- value domains ---------------------------- *)
Null == -1
NoName == ""
DayMinutes == 1440
StartNow == 450
TickMinutes == 240
Names == {"P", "Q"}
Venues == {"A", "B"}
Dates == {0, 1}
SchedIds == {1, 2}
ReqIds == {1, 2}
Addresses == {NoName, "addr"}
(* what route_utils.estimate_travel_minutes gives for a pair of addresses: *)
(* None (no key, no geocode, no route), an exception of the HTTP call, or  *)
(* a number of minutes                                                     *)
Raised == -2
Answers == {Null, Raised, 45}

Max(S) == CHOOSE x \in S : \A y \in S : y <= x
Min(S) == CHOOSE x \in S : \A y \in S : x <= y

(* datetime.combine(d, t) and (datetime - minutes).time()                  *)
Combine(d, t) == d * DayMinutes + t
TimeMinus(t, m) == (t - m) % DayMinutes

(* ------------------------------ tables -------------------------------- *)
(* compute_shoot_and_arrival / admin_edit_schedule_save defaults at write  *)
WriteShoot(wt, shoot) ==
    IF shoot = Null /\ wt # Null THEN TimeMinus(wt, 60) ELSE shoot

WriteArrival_Hour(shoot) ==
    IF shoot # Null THEN TimeMinus(shoot, 60) ELSE Null

WriteArrival(shoot) ==
    IF shoot # Null THEN TimeMinus(shoot, 30) ELSE Null

ScheduleRow(id, d, wt, v, m, s) ==
    [id |-> id, wedding_date |-> d, wedding_time |-> wt,
     shoot_start_time |-> WriteShoot(wt, Null),
     arrival_target_time |-> WriteArrival(WriteShoot(wt, Null)),
     travel_minutes_default |-> Null,
     venue |-> v, venue_address |-> NoName,
     main_name |-> m, sub_name |-> s]

NewCheckin(id, sid, name) ==
    [id |-> id, schedule_id |-> sid, photographer_name |-> name,
     wake_time |-> Null, depart_time |-> Null, arrive_time |-> Null,
     arrive_photo_path |-> Null, updated_at |-> Null]

(* session.get(Schedule, schedule_id)                                      *)
HasSchedule(sid) == \E s \in schedules : s.id = sid
GetSchedule(sid) == CHOOSE s \in schedules : s.id = sid

(* select(...).first() on the Checkin table: the row with the lowest id    *)
MatchingCheckins(chks, sid, name) ==
    {c \in chks : c.schedule_id = sid /\ c.photographer_name = name}

FirstCheckin(chks, sid, name) ==
    CHOOSE c \in MatchingCheckins(chks, sid, name) :
        \A d \in MatchingCheckins(chks, sid, name) : c.id <= d.id

(* The autoincrement primary key.  Ids are only ever compared between rows  *)
(* of one (schedule_id, photographer_name) pair (by .first()), and rows of *)
(* a pair are only deleted together, so the model keeps the rank of the id *)
(* among the rows of its pair; a row is identified by pair and rank.       *)
NextCheckinId(chks, sid, name) ==
    IF MatchingCheckins(chks, sid, name) = {} THEN 1
    ELSE Max({c.id : c \in MatchingCheckins(chks, sid, name)}) + 1

(* INSERT of a fresh Checkin row                                           *)
InsertCheckin(chks, sid, name) ==
    chks \cup {NewCheckin(NextCheckinId(chks, sid, name), sid, name)}

get_or_create_checkin(chks, sid, name) ==
    IF MatchingCheckins(chks, sid, name) # {}
    THEN chks
    ELSE InsertCheckin(chks, sid, name)

(* ---------------------------- trip grouping --------------------------- *)
OnSchedule(s, name) == s.main_name = name \/ s.sub_name = name

(* faulty variants of the sibling queries, used to test the properties    *)
WakeSiblings_SameVenue(s0, name) ==
    {s.id : s \in {x \in schedules :
        x.wedding_date = s0.wedding_date /\ x.venue = s0.venue
        /\ OnSchedule(x, name)}}

WakeSiblings(s0, name) ==
    {s.id : s \in {x \in schedules :
        x.wedding_date = s0.wedding_date /\ OnSchedule(x, name)}}

VenueSiblings_OnlyRef(s0, name) ==
    {s.id : s \in {x \in schedules : x.id = s0.id /\ OnSchedule(x, name)}}

VenueSiblings_WithRef(s0, name) ==
    {s.id : s \in {x \in schedules :
        x.wedding_date = s0.wedding_date /\ x.venue = s0.venue
        /\ (OnSchedule(x, name) \/ x.id = s0.id)}}

VenueSiblings(s0, name) ==
    {s.id : s \in {x \in schedules :
        x.wedding_date = s0.wedding_date /\ x.venue = s0.venue
        /\ OnSchedule(x, name)}}

(* ------------------------- confirmation bodies ------------------------ *)
(* faulty variants of the writes, used to test the properties            *)
WakeWrite_Overwrite(chk, t) ==
    [chk EXCEPT !.wake_time = t, !.updated_at = t]

WakeWrite_Inverted(chk, t) ==
    IF chk.wake_time # Null
    THEN [chk EXCEPT !.wake_time = t, !.updated_at = t]
    ELSE chk

WakeWrite_Toggle(chk, t) ==
    IF chk.wake_time = Null
    THEN [chk EXCEPT !.wake_time = t, !.updated_at = t]
    ELSE [chk EXCEPT !.wake_time = Null, !.updated_at = t]

WakeWrite(chk, t) ==
    IF chk.wake_time = Null
    THEN [chk EXCEPT !.wake_time = t, !.updated_at = t]
    ELSE chk

DepartWrite_NoBackfill(chk, t) ==
    IF chk.depart_time = Null
    THEN [chk EXCEPT !.depart_time = t, !.updated_at = t]
    ELSE chk

DepartWrite_Elif(chk, t) ==
    IF chk.wake_time = Null THEN [chk EXCEPT !.wake_time = t]
    ELSE IF chk.depart_time = Null
    THEN [chk EXCEPT !.depart_time = t, !.updated_at = t]
    ELSE chk

DepartWrite_NoStamp(chk, t) ==
    LET c1 == IF chk.wake_time = Null THEN [chk EXCEPT !.wake_time = t] ELSE chk
    IN  IF c1.depart_time = Null THEN [c1 EXCEPT !.depart_time = t] ELSE c1

DepartWrite(chk, t) ==
    LET c1 == IF chk.wake_time = Null THEN [chk EXCEPT !.wake_time = t] ELSE chk
    IN  IF c1.depart_time = Null
        THEN [c1 EXCEPT !.depart_time = t, !.updated_at = t]
        ELSE c1

ArriveWrite_NoBackfill(chk, t, photo) ==
    LET c3 == IF chk.arrive_time = Null THEN [chk EXCEPT !.arrive_time = t]
              ELSE chk
    IN  [c3 EXCEPT !.arrive_photo_path = photo, !.updated_at = t]

ArriveWrite_KeepPhoto(chk, t, photo) ==
    LET c1 == IF chk.wake_time = Null THEN [chk EXCEPT !.wake_time = t] ELSE chk
        c2 == IF c1.depart_time = Null THEN [c1 EXCEPT !.depart_time = t] ELSE c1
    IN  IF c2.arrive_time = Null
        THEN [c2 EXCEPT !.arrive_time = t, !.arrive_photo_path = photo,
                        !.updated_at = t]
        ELSE [c2 EXCEPT !.updated_at = t]

ArriveWrite(chk, t, photo) ==
    LET c1 == IF chk.wake_time = Null THEN [chk EXCEPT !.wake_time = t] ELSE chk
        c2 == IF c1.depart_time = Null THEN [c1 EXCEPT !.depart_time = t] ELSE c1
        c3 == IF c2.arrive_time = Null THEN [c2 EXCEPT !.arrive_time = t] ELSE c2
    IN  [c3 EXCEPT !.arrive_photo_path = photo, !.updated_at = t]

FieldWrite(kind, chk, t, photo) ==
    IF kind = "wake" THEN WakeWrite(chk, t)
    ELSE IF kind = "depart" THEN DepartWrite(chk, t)
    ELSE ArriveWrite(chk, t, photo)

(* the "for s in ..." loop of a confirmation, in ascending schedule id     *)
RECURSIVE ConfirmLoop(_, _, _, _, _, _)
ConfirmLoop(kind, sibs, name, t, photo, chks) ==
    IF sibs = {} THEN chks
    ELSE LET sid  == Min(sibs)
             tbl  == get_or_create_checkin(chks, sid, name)
             chk  == FirstCheckin(tbl, sid, name)
             tbl2 == (tbl \ {chk}) \cup {FieldWrite(kind, chk, t, photo)}
         IN  ConfirmLoop(kind, sibs \ {sid}, name, t, photo, tbl2)

(* ------------------------- travel estimate cache ---------------------- *)
MatchingRoutes(rts, s, name) ==
    {r \in rts : r.schedule_id = s.id /\ r.photographer_name = name}

FirstRoute(rts, s, name) ==
    CHOOSE r \in MatchingRoutes(rts, s, name) :
        \A q \in MatchingRoutes(rts, s, name) : r.id <= q.id

(* step 1: the SELECT ... .first(); Null when no row is stored              *)
SelectRoute(rts, s, name) ==
    IF MatchingRoutes(rts, s, name) = {} THEN Null
    ELSE FirstRoute(rts, s, name).minutes

NewRoute(rts, sid, name, mins) ==
    [id |-> IF rts = {} THEN 1 ELSE Max({r.id : r \in rts}) + 1,
     schedule_id |-> sid, photographer_name |-> name,
     minutes |-> mins, provider |-> "osrm"]

(* main.py imports nothing from route_utils and defines no function named  *)
(* estimate_travel_minutes: in main.py the name is unbound.                *)
EstimatorBound_Imported == TRUE

EstimatorBound == FALSE

EstimatorCall_Unguarded(answer) == answer

(* lines 169-172, the call inside try / except Exception.  An unbound name *)
(* raises NameError, and so does not return the answer of the service;     *)
(* every exception leaves mins = None.                                     *)
EstimatorCall(answer) ==
    IF ~ EstimatorBound THEN Null
    ELSE IF answer = Raised THEN Null
    ELSE answer

(* faulty variants of the resolution, used to test the properties         *)
RouteSteps_DefaultFirst(cached, rts, s, name, p_addr, answer) ==
    IF s.travel_minutes_default # Null
    THEN [ret |-> s.travel_minutes_default, step |-> "default",
          attempted |-> FALSE, routes |-> rts]
    ELSE IF cached # Null
    THEN [ret |-> cached, step |-> "stored", attempted |-> FALSE,
          routes |-> rts]
    ELSE [ret |-> Null, step |-> "unknown", attempted |-> FALSE,
          routes |-> rts]

RouteSteps_PersistDefault(cached, rts, s, name, p_addr, answer) ==
    IF cached # Null
    THEN [ret |-> cached, step |-> "stored", attempted |-> FALSE,
          routes |-> rts]
    ELSE IF s.travel_minutes_default # Null
    THEN [ret |-> s.travel_minutes_default, step |-> "default",
          attempted |-> FALSE,
          routes |-> rts \cup {NewRoute(rts, s.id, name,
                                        s.travel_minutes_default)}]
    ELSE [ret |-> Null, step |-> "unknown", attempted |-> FALSE,
          routes |-> rts]

(* steps 1 (after its SELECT returned cached), 2 and 3.  The result holds   *)
(* the returned minutes, the step that produced them, whether line 170 was *)
(* reached, and the RouteEstimate table after the call.                    *)
RouteSteps(cached, rts, s, name, p_addr, answer) ==
    IF cached # Null
    THEN [ret |-> cached, step |-> "stored", attempted |-> FALSE,
          routes |-> rts]
    ELSE IF s.travel_minutes_default # Null
    THEN [ret |-> s.travel_minutes_default, step |-> "default",
          attempted |-> FALSE, routes |-> rts]
    ELSE IF p_addr # NoName /\ s.venue_address # NoName
    THEN LET mins == EstimatorCall(answer)
         IN  IF mins # Null
             THEN [ret |-> mins, step |-> "estimated", attempted |-> TRUE,
                   routes |-> rts \cup {NewRoute(rts, s.id, name, mins)}]
             ELSE [ret |-> Null, step |-> "unknown", attempted |-> TRUE,
                   routes |-> rts]
    ELSE [ret |-> Null, step |-> "unknown", attempted |-> FALSE,
          routes |-> rts]

get_cached_route_minutes(rts, s, name, p_addr, answer) ==
    RouteSteps(SelectRoute(rts, s, name), rts, s, name, p_addr, answer)

(* --------------------------- deadline calculator ---------------------- *)
(* faulty variants of the calculator, used to test the properties         *)
compute_deadlines_IgnoreTravel(s, travel_minutes) ==
    IF s.wedding_time = Null
    THEN [arrival_target_dt |-> Null, wake_deadline |-> Null,
          depart_deadline |-> Null]
    ELSE LET base_time == IF s.arrival_target_time # Null
                          THEN s.arrival_target_time
                          ELSE TimeMinus(s.wedding_time, 120)
             arrival_target_dt == Combine(s.wedding_date, base_time)
         IN  [arrival_target_dt |-> arrival_target_dt,
              wake_deadline |-> arrival_target_dt - 120,
              depart_deadline |-> arrival_target_dt - 60]

compute_deadlines_NoGuard(s, travel_minutes) ==
    IF s.wedding_time = Null /\ s.arrival_target_time = Null
    THEN [arrival_target_dt |-> Null, wake_deadline |-> Null,
          depart_deadline |-> Null]
    ELSE LET base_time == IF s.arrival_target_time # Null
                          THEN s.arrival_target_time
                          ELSE TimeMinus(s.wedding_time, 120)
             arrival_target_dt == Combine(s.wedding_date, base_time)
         IN  [arrival_target_dt |-> arrival_target_dt,
              wake_deadline |-> arrival_target_dt - 120,
              depart_deadline |-> IF travel_minutes = Null
                                  THEN arrival_target_dt - 60
                                  ELSE arrival_target_dt - travel_minutes]

compute_deadlines(s, travel_minutes) ==
    IF s.wedding_time = Null
    THEN [arrival_target_dt |-> Null, wake_deadline |-> Null,
          depart_deadline |-> Null]
    ELSE LET base_time == IF s.arrival_target_time # Null
                          THEN s.arrival_target_time
                          ELSE TimeMinus(s.wedding_time, 120)
             arrival_target_dt == Combine(s.wedding_date, base_time)
         IN  [arrival_target_dt |-> arrival_target_dt,
              wake_deadline |-> arrival_target_dt - 120,
              depart_deadline |-> IF travel_minutes = Null
                                  THEN arrival_target_dt - 60
                                  ELSE arrival_target_dt - travel_minutes]

(* ------------------------------ alert evaluator ----------------------- *)
(* bool(chk and chk.<field>) on this schedule's own Checkin                *)
own_ok(s, name, field) ==
    /\ MatchingCheckins(checkins, s.id, name) # {}
    /\ FirstCheckin(checkins, s.id, name)[field] # Null

other_ok_AnyVenue(s, name, field) ==
    \E c \in checkins, x \in schedules :
        /\ x.id = c.schedule_id
        /\ c.photographer_name = name
        /\ x.wedding_date = s.wedding_date
        /\ c[field] # Null

(* other_arr / other_dep: the Checkin-Schedule join on name, date, venue   *)
other_ok(s, name, field) ==
    \E c \in checkins, x \in schedules :
        /\ x.id = c.schedule_id
        /\ c.photographer_name = name
        /\ x.wedding_date = s.wedding_date
        /\ x.venue = s.venue
        /\ c[field] # Null

overdue_Strict(deadline, t, ok) == deadline # Null /\ t > deadline /\ ~ ok

overdue(deadline, t, ok) == deadline # Null /\ t >= deadline /\ ~ ok

(* p = select(Photographer).where(name == ...).first(); p.address or ""   *)
AddressOf(name) ==
    IF \E p \in photographers : p.name = name
    THEN (CHOOSE p \in photographers :
            p.name = name /\ \A q \in photographers :
                                q.name = name => p.id <= q.id).address
    ELSE NoName

(* One row of the evaluator as a function of the stored tables: the figure *)
(* get_cached_route_minutes returns when the service gives no answer.      *)
AlertRow(s, role, name, t) ==
    LET travel_mins == get_cached_route_minutes(routes, s, name,
                                                AddressOf(name), Null).ret
        d == compute_deadlines(s, travel_mins)
        wake_ok == own_ok(s, name, "wake_time")
        depart_ok == own_ok(s, name, "depart_time")
                        \/ other_ok(s, name, "depart_time")
        arrive_ok == own_ok(s, name, "arrive_time")
                        \/ other_ok(s, name, "arrive_time")
    IN  [schedule_id |-> s.id, role |-> role, name |-> name,
         arrival_target_dt |-> d.arrival_target_dt,
         wake_deadline |-> d.wake_deadline,
         depart_deadline |-> d.depart_deadline,
         wake_ok |-> wake_ok, depart_ok |-> depart_ok, arrive_ok |-> arrive_ok,
         wake_overdue |-> overdue(d.wake_deadline, t, wake_ok),
         depart_overdue |-> overdue(d.depart_deadline, t, depart_ok),
         arrive_overdue |-> overdue(d.arrival_target_dt, t, arrive_ok)]

DateOf(t) == t \div DayMinutes

Roles(s) == {<<"main", s.main_name>>, <<"sub", s.sub_name>>}

(* the rows GET /admin/alerts builds at instant t                          *)
admin_alerts(t) ==
    UNION {{AlertRow(s, rn[1], rn[2], t) :
                rn \in {q \in Roles(s) : q[2] # NoName}} :
           s \in {x \in schedules : x.wedding_date >= DateOf(t)
                                    /\ x.wedding_date <= DateOf(t) + 7}}

(* ------------------------------ handlers ------------------------------ *)
(* confirmed is a history of two kinds of confirmation:                    *)
(*   <<"depart", b, name>>  name confirmed depart with a reference schedule *)
(*       it is on, and the handler's loop covered the other schedule b;    *)
(*   <<"wake", b, name>>    name confirmed wake, the loop covered b, and   *)
(*       the evaluator reported wake_overdue for (b, name) at that moment. *)
Covered(kind, ref, sibs, name) ==
    IF kind = "depart"
    THEN {<<kind, b, name>> : b \in {x \in sibs : ref \in sibs /\ x # ref}}
    ELSE IF kind = "wake"
    THEN {<<kind, b, name>> : b \in {x \in sibs :
            \E r \in admin_alerts(now) :
                r.schedule_id = x /\ r.name = name /\ r.wake_overdue}}
    ELSE {}

check_wake(user, schedule_id) ==
    /\ user \in photographers
    /\ ~ user.is_admin
    /\ UNCHANGED <<halls, now, schedules, photographers, routes, reqs>>
    /\ IF ~ HasSchedule(schedule_id)
       THEN UNCHANGED <<checkins, confirmed>>
       ELSE LET sibs == WakeSiblings(GetSchedule(schedule_id), user.name)
            IN  /\ checkins' = ConfirmLoop("wake", sibs, user.name, now, Null,
                                           checkins)
                /\ confirmed' = confirmed \cup
                        Covered("wake", schedule_id, sibs, user.name)

check_depart(user, schedule_id) ==
    /\ user \in photographers
    /\ ~ user.is_admin
    /\ UNCHANGED <<halls, now, schedules, photographers, routes, reqs>>
    /\ IF ~ HasSchedule(schedule_id)
       THEN UNCHANGED <<checkins, confirmed>>
       ELSE LET sibs == VenueSiblings(GetSchedule(schedule_id), user.name)
            IN  /\ checkins' = ConfirmLoop("depart", sibs, user.name, now, Null,
                                           checkins)
                /\ confirmed' = confirmed \cup
                        Covered("depart", schedule_id, sibs, user.name)

(* the photo is stored under a fresh name built from schedule_id, user.id  *)
(* and a uuid; the model names it by schedule_id and the upload instant    *)
PhotoRef(schedule_id, t) == schedule_id * 100000 + t

(* an uploaded file name is a sequence of characters; <<>> is a request    *)
(* without a file name                                                     *)
PhotoJPG == <<"a", ".", "J", "P", "G">>
Filenames ==
    {<<>>, PhotoJPG, <<"a", ".", "g", "i", "f">>, <<".", "p", "n", "g">>,
     <<"p", "n", "g">>}

(* os.path.splitext(filename)[1]: from the last dot on, when a character   *)
(* other than a dot stands before it; else empty                           *)
splitext(filename) ==
    LET dots == {i \in 1..Len(filename) : filename[i] = "."}
    IN  IF dots # {} /\ \E i \in 1..(Max(dots) - 1) : filename[i] # "."
        THEN SubSeq(filename, Max(dots), Len(filename))
        ELSE <<>>

(* str.lower() over the letters of the file names                          *)
lower(str) ==
    [i \in 1..Len(str) |->
        CASE str[i] = "J" -> "j"
          [] str[i] = "P" -> "p"
          [] str[i] = "G" -> "g"
          [] OTHER -> str[i]]

AllowedExts ==
    {<<".", "j", "p", "g">>, <<".", "j", "p", "e", "g">>,
     <<".", "p", "n", "g">>, <<".", "w", "e", "b", "p">>}

(* faulty variant, used to test the properties: any extension is taken     *)
PhotoAccepted_AnyName(filename) == filename # <<>>

(* the two photo guards of check_arrive                                    *)
PhotoAccepted(filename) ==
    filename # <<>> /\ lower(splitext(filename)) \in AllowedExts

check_arrive(user, schedule_id, filename) ==
    /\ user \in photographers
    /\ ~ user.is_admin
    /\ UNCHANGED <<halls, now, schedules, photographers, routes, reqs>>
    /\ IF ~ PhotoAccepted(filename) \/ ~ HasSchedule(schedule_id)
       THEN UNCHANGED <<checkins, confirmed>>
       ELSE LET sibs == VenueSiblings(GetSchedule(schedule_id), user.name)
            IN  /\ checkins' = ConfirmLoop("arrive", sibs, user.name, now,
                                           PhotoRef(schedule_id, now), checkins)
                /\ confirmed' = confirmed \cup
                        Covered("arrive", schedule_id, sibs, user.name)

(* ------------------------------ admin ops ----------------------------- *)
(* POST /admin/schedules/{sid}/edit.  wedding_time, shoot_start_time and   *)
(* arrival_target_time arrive as parsed form values (Null when blank).     *)
(* venue_row_address is the address the Venue table holds for the posted   *)
(* venue name ("" when it has no row or no address): a blank               *)
(* venue_address field is filled from it.                                  *)
admin_edit_schedule_save(sid, wedding_date, wedding_time, venue, venue_address, venue_row_address, shoot_start_time, arrival_target_time, main_name, sub_name) ==
    /\ HasSchedule(sid)
    /\ LET s == GetSchedule(sid)
           shoot_t == WriteShoot(wedding_time, shoot_start_time)
           arr_t == IF arrival_target_time # Null THEN arrival_target_time
                    ELSE WriteArrival(shoot_t)
           s2 == [s EXCEPT !.wedding_date = wedding_date,
                           !.wedding_time = wedding_time,
                           !.shoot_start_time = shoot_t,
                           !.arrival_target_time = arr_t,
                           !.venue = venue,
                           !.venue_address =
                               IF venue_address # NoName THEN venue_address
                               ELSE venue_row_address,
                           !.main_name = main_name,
                           !.sub_name = sub_name]
       IN  schedules' = (schedules \ {s}) \cup {s2}
    /\ UNCHANGED <<halls, now, photographers, checkins, routes, confirmed, reqs>>

(* POST /admin/schedules/{sid}/delete: the Checkins go, RouteEstimates    *)
(* stay.  RouteEstimate.schedule_id is declared a foreign key without a    *)
(* cascade: an engine that enforces it rejects the commit when a           *)
(* RouteEstimate is stored, which leaves every table as it was.            *)
admin_delete_schedule(sid) ==
    /\ HasSchedule(sid)
    /\ checkins' = {c \in checkins : c.schedule_id # sid}
    /\ schedules' = schedules \ {GetSchedule(sid)}
    /\ UNCHANGED <<halls, now, photographers, routes, confirmed, reqs>>

(* POST /admin/photographers/{pid}/delete                                  *)
(* faulty variant, used to test the properties: the Checkins stay          *)
admin_delete_photographer_KeepCheckins(p) ==
    /\ p \in photographers
    /\ ~ p.is_admin
    /\ IF \E s \in schedules : OnSchedule(s, p.name)
       THEN UNCHANGED <<checkins, photographers>>
       ELSE /\ checkins' = checkins
            /\ photographers' = photographers \ {p}
    /\ UNCHANGED <<halls, now, schedules, routes, confirmed, reqs>>

admin_delete_photographer(p) ==
    /\ p \in photographers
    /\ ~ p.is_admin
    /\ IF \E s \in schedules : OnSchedule(s, p.name)
       THEN UNCHANGED <<checkins, photographers>>
       ELSE /\ checkins' = {c \in checkins : c.photographer_name # p.name}
            /\ photographers' = photographers \ {p}
    /\ UNCHANGED <<halls, now, schedules, routes, confirmed, reqs>>

(* POST /admin/schedules/bulk_delete: for every posted id the Checkins,    *)
(* the RouteEstimates and the Schedule go, in one commit                   *)
admin_schedules_bulk_delete(ids) ==
    /\ ids # {}
    /\ checkins' = {c \in checkins : c.schedule_id \notin ids}
    /\ routes' = {r \in routes : r.schedule_id \notin ids}
    /\ schedules' = {s \in schedules : s.id \notin ids}
    /\ UNCHANGED <<halls, now, photographers, confirmed, reqs>>

(* ---------------------------- wedding halls ---------------------------- *)
(* a WeddingHall row is [id, name, address]; name is unique                *)
upsert_wedding_hall(hs, name, address) ==
    LET found == {h \in hs : h.name = name}
    IN  IF found = {}
        THEN LET h == [id |-> IF hs = {} THEN 1
                              ELSE Max({x.id : x \in hs}) + 1,
                       name |-> name, address |-> address]
             IN  [halls |-> hs \cup {h}, hall |-> h]
        ELSE LET old == CHOOSE h \in found : TRUE
                 h == IF address # NoName THEN [old EXCEPT !.address = address]
                      ELSE old
             IN  [halls |-> (hs \ {old}) \cup {h}, hall |-> h]

(* faulty variant, used to test the properties: only the RouteEstimates   *)
(* of the schedules whose address changed go                               *)
propagate_hall_address_ChangedOnly(scheds, rts, hall_name, address) ==
    LET at == {s \in scheds : s.venue = hall_name}
        changed == {s \in at : s.venue_address # address}
    IN  IF hall_name = NoName \/ address = NoName \/ changed = {}
        THEN [schedules |-> scheds, routes |-> rts, updated |-> 0]
        ELSE [schedules |-> {IF s \in changed
                             THEN [s EXCEPT !.venue_address = address]
                             ELSE s : s \in scheds},
              routes |-> {r \in rts :
                            r.schedule_id \notin {s.id : s \in changed}},
              updated |-> Cardinality(changed)]

(* the schedules of the hall get the address where they differ; when at    *)
(* least one differed, the RouteEstimates of every schedule of the hall go *)
propagate_hall_address(scheds, rts, hall_name, address) ==
    LET at == {s \in scheds : s.venue = hall_name}
        changed == {s \in at : s.venue_address # address}
    IN  IF hall_name = NoName \/ address = NoName \/ changed = {}
        THEN [schedules |-> scheds, routes |-> rts, updated |-> 0]
        ELSE [schedules |-> {IF s \in changed
                             THEN [s EXCEPT !.venue_address = address]
                             ELSE s : s \in scheds},
              routes |-> {r \in rts : r.schedule_id \notin {s.id : s \in at}},
              updated |-> Cardinality(changed)]

(* POST /admin/wedding_halls                                               *)
admin_wedding_halls_create(name, address) ==
    /\ name # NoName
    /\ LET up == upsert_wedding_hall(halls, name, address)
           pr == IF up.hall.address # NoName
                 THEN propagate_hall_address(schedules, routes, up.hall.name,
                                             up.hall.address)
                 ELSE [schedules |-> schedules, routes |-> routes,
                       updated |-> 0]
       IN  /\ halls' = up.halls
           /\ schedules' = pr.schedules
           /\ routes' = pr.routes
    /\ UNCHANGED <<now, photographers, checkins, confirmed, reqs>>

(* POST /admin/wedding_halls/{hall_id}/edit: the hall row, then the venue  *)
(* of the schedules filed under the old name, then the propagation.  A     *)
(* name another hall holds violates the unique index and nothing is        *)
(* stored.                                                                 *)
admin_wedding_halls_edit_save(hall_id, name, address) ==
    /\ \E hall \in halls :
          /\ hall.id = hall_id
          /\ LET new_name == IF name # NoName THEN name ELSE hall.name
                 renamed == {IF s.venue = hall.name
                             THEN [s EXCEPT !.venue = new_name]
                             ELSE s : s \in schedules}
                 pr == IF address # NoName
                       THEN propagate_hall_address(renamed, routes, new_name,
                                                   address)
                       ELSE [schedules |-> renamed, routes |-> routes,
                             updated |-> 0]
             IN  /\ \A h \in halls \ {hall} : h.name # new_name
                 /\ halls' = (halls \ {hall}) \cup
                        {[hall EXCEPT !.name = new_name, !.address = address]}
                 /\ schedules' = pr.schedules
                 /\ routes' = pr.routes
    /\ UNCHANGED <<now, photographers, checkins, confirmed, reqs>>

(* ------------------------- photographer rename ------------------------- *)
(* POST /admin/photographers/{pid}/edit up to its first commit: the        *)
(* Photographer row.  A name another photographer holds violates the       *)
(* unique index and nothing is stored.                                     *)
admin_edit_photographer_save(r, p, name) ==
    /\ reqs[r].pc = "idle"
    /\ p \in photographers
    /\ ~ p.is_admin
    /\ \A q \in photographers \ {p} : q.name # name
    /\ photographers' = (photographers \ {p}) \cup {[p EXCEPT !.name = name]}
    /\ reqs' = IF p.name # name
               THEN [reqs EXCEPT ![r] = [pc |-> "renamed", old_name |-> p.name,
                                         name |-> name]]
               ELSE reqs
    /\ UNCHANGED <<halls, now, schedules, checkins, routes, confirmed>>

(* ... and its second commit, when the name changed: main_name and         *)
(* sub_name of the schedules.  No statement touches Checkin.               *)
admin_edit_photographer_save_schedules(r) ==
    /\ reqs[r].pc = "renamed"
    /\ schedules' =
          {[s EXCEPT !.main_name = IF @ = reqs[r].old_name THEN reqs[r].name
                                   ELSE @,
                     !.sub_name = IF @ = reqs[r].old_name THEN reqs[r].name
                                  ELSE @] : s \in schedules}
    /\ reqs' = [reqs EXCEPT ![r] = [pc |-> "idle"]]
    /\ UNCHANGED <<halls, now, photographers, checkins, routes, confirmed>>

(* datetime.now() is non-decreasing between requests                       *)
Tick ==
    /\ now < StartNow + MaxTicks * TickMinutes
    /\ now' = now + TickMinutes
    /\ UNCHANGED <<halls, schedules, photographers, checkins, routes, confirmed, reqs>>

(* ------------------------------- system ------------------------------- *)
PhotogP == [id |-> 1, name |-> "P", address |-> NoName, is_admin |-> FALSE]
PhotogQ == [id |-> 2, name |-> "Q", address |-> NoName, is_admin |-> FALSE]

IdleReqs == [r \in ReqIds |-> [pc |-> "idle"]]

InitSchedules ==
    {ScheduleRow(1, 0, 780, "A", "P", NoName),
     ScheduleRow(2, 0, Null, "B", "P", NoName)}

Init ==
    /\ now = StartNow
    /\ schedules = InitSchedules
    /\ photographers = {PhotogP}
    /\ checkins = {}
    /\ routes = {}
    /\ halls = {}
    /\ confirmed = {}
    /\ reqs = IdleReqs

(* the confirmations whose photo is one of files                           *)
Confirmations(files) ==
    \/ \E u \in photographers, sid \in SchedIds : check_wake(u, sid)
    \/ \E u \in photographers, sid \in SchedIds : check_depart(u, sid)
    \/ \E u \in photographers, sid \in SchedIds, f \in files :
          check_arrive(u, sid, f)

(* the admin re-posts the edit form with another venue or main name        *)
Next ==
    \/ Confirmations(Filenames)
    \/ \E s \in schedules, v \in Venues, m \in {"P", NoName} :
          admin_edit_schedule_save(s.id, s.wedding_date, s.wedding_time, v,
                                   NoName, NoName, Null, Null, m, s.sub_name)
    \/ \E sid \in SchedIds : admin_delete_schedule(sid)
    \/ \E p \in photographers : admin_delete_photographer(p)
    \/ Tick

Spec == Init /\ [][Next]_vars

(* ---- confirmations only, every arrive with an accepted photo, over ---- *)
(* ---- the schedule tables an import leaves ---------------------------- *)
TripTables ==
    {{ScheduleRow(1, 0, 780, "A", "P", NoName),
      ScheduleRow(2, d, Null, v, "P", NoName)} : d \in Dates, v \in Venues}
    \cup
    {{ScheduleRow(1, 0, 780, "A", "P", NoName),
      ScheduleRow(2, 0, Null, v, "Q", "P")} : v \in Venues}

InitTrip ==
    /\ now = StartNow
    /\ schedules \in TripTables
    /\ photographers = {PhotogP, PhotogQ}
    /\ checkins = {}
    /\ routes = {}
    /\ halls = {}
    /\ confirmed = {}
    /\ reqs = IdleReqs

NextTrip == Confirmations({PhotoJPG}) \/ Tick

SpecTrip == InitTrip /\ [][NextTrip]_vars

(* ---- deadlines and travel estimates: the admin's writes of one --------- *)
(* ---- schedule and the alert evaluation, one request at a time ---------- *)
(* POST /admin/schedules/import with a sheet of one row.  The importer      *)
(* derives shoot_start_time and arrival_target_time; the handler creates a *)
(* Photographer for a name it does not know and skips a row that is        *)
(* already stored.                                                         *)
admin_import_schedules(d, wt, v, va, shoot, m, sb) ==
    LET row == [ScheduleRow(0, d, wt, v, m, sb) EXCEPT
                    !.shoot_start_time = WriteShoot(wt, shoot),
                    !.arrival_target_time = WriteArrival(WriteShoot(wt, shoot)),
                    !.venue_address = va]
        exists == \E x \in schedules :
                    /\ x.wedding_date = d /\ x.wedding_time = wt
                    /\ x.venue = v /\ x.main_name = m /\ x.sub_name = sb
        newid == IF schedules = {} THEN 1
                 ELSE Max({x.id : x \in schedules}) + 1
        unknown == {nm \in {m, sb} : nm # NoName
                        /\ ~ \E p \in photographers : p.name = nm}
        pid(nm) == (IF photographers = {} THEN 0
                    ELSE Max({p.id : p \in photographers}))
                   + (IF nm = m THEN 1 ELSE Cardinality(unknown))
    IN  /\ photographers' = photographers \cup
              {[id |-> pid(nm), name |-> nm, address |-> NoName,
                is_admin |-> FALSE] :
                    nm \in unknown}
        /\ schedules' = IF exists THEN schedules
                        ELSE schedules \cup {[row EXCEPT !.id = newid]}
        /\ UNCHANGED <<halls, now, checkins, routes, confirmed, reqs>>

(* the loop body of GET /admin/alerts for the rows in todo (schedule id,   *)
(* role, name), main before sub: the travel figure, then the deadlines.    *)
(* rts is the RouteEstimate table as the rows before have left it.         *)
RoleRank(role) == IF role = "main" THEN 0 ELSE 1

RECURSIVE EvalRows(_, _, _, _)
EvalRows(todo, rts, answer, acc) ==
    IF todo = {} THEN [rows |-> acc, routes |-> rts]
    ELSE LET k == CHOOSE x \in todo : \A y \in todo :
                     \/ x[1] < y[1]
                     \/ x[1] = y[1] /\ RoleRank(x[2]) <= RoleRank(y[2])
             s == GetSchedule(k[1])
             p_addr == AddressOf(k[3])
             res == get_cached_route_minutes(rts, s, k[3], p_addr, answer)
             row == [schedule |-> s, role |-> k[2], name |-> k[3],
                     p_addr |-> p_addr, answer |-> answer,
                     cached |-> SelectRoute(rts, s, k[3]),
                     ret |-> res.ret, step |-> res.step,
                     attempted |-> res.attempted,
                     d |-> compute_deadlines(s, res.ret),
                     wake_overdue |->
                        overdue(compute_deadlines(s, res.ret).wake_deadline,
                                now, own_ok(s, k[3], "wake_time")),
                     depart_overdue |->
                        overdue(compute_deadlines(s, res.ret).depart_deadline,
                                now, own_ok(s, k[3], "depart_time")
                                        \/ other_ok(s, k[3], "depart_time")),
                     arrive_overdue |->
                        overdue(compute_deadlines(s, res.ret).arrival_target_dt,
                                now, own_ok(s, k[3], "arrive_time")
                                        \/ other_ok(s, k[3], "arrive_time"))]
         IN  EvalRows(todo \ {k}, res.routes, answer, acc \cup {row})

(* faulty variant of the window, used to test the properties: the last    *)
(* day is left out                                                         *)
AlertKeys_OpenEnd(t) ==
    UNION {{<<s.id, rn[1], rn[2]>> : rn \in {q \in Roles(s) : q[2] # NoName}} :
           s \in {x \in schedules : x.wedding_date >= DateOf(t)
                                    /\ x.wedding_date < DateOf(t) + 7}}

AlertKeys(t) ==
    UNION {{<<s.id, rn[1], rn[2]>> : rn \in {q \in Roles(s) : q[2] # NoName}} :
           s \in {x \in schedules : x.wedding_date >= DateOf(t)
                                    /\ x.wedding_date <= DateOf(t) + 7}}

(* the rows of the response: with ?only=1 those with an overdue flag       *)
OnlyRows(rows, only) ==
    IF only
    THEN {row \in rows :
            row.wake_overdue \/ row.depart_overdue \/ row.arrive_overdue}
    ELSE rows

(* faulty variant of the evaluation, used to test the properties: it       *)
(* creates the Checkin of every row it evaluates                           *)
admin_alerts_run_Creates(r, answer, only) ==
    /\ reqs[r].pc = "idle"
    /\ LET res == EvalRows(AlertKeys(now), routes, answer, {})
       IN  /\ routes' = res.routes
           /\ reqs' = [reqs EXCEPT ![r] =
                          [pc |-> "done", rows |-> OnlyRows(res.rows, only),
                           only |-> only, answer |-> answer,
                           before |-> routes]]
           /\ checkins' = checkins \cup
                  {NewCheckin(1, k[1], k[3]) :
                      k \in {x \in AlertKeys(now) :
                               MatchingCheckins(checkins, x[1], x[3]) = {}}}
    /\ UNCHANGED <<halls, now, schedules, photographers, confirmed>>

(* GET /admin/alerts as a request: every row is evaluated, the rows the    *)
(* estimator filled are committed, and the response holds the rows.        *)
admin_alerts_run(r, answer, only) ==
    /\ reqs[r].pc = "idle"
    /\ LET res == EvalRows(AlertKeys(now), routes, answer, {})
       IN  /\ routes' = res.routes
           /\ reqs' = [reqs EXCEPT ![r] =
                          [pc |-> "done", rows |-> OnlyRows(res.rows, only),
                           only |-> only, answer |-> answer,
                           before |-> routes]]
    /\ UNCHANGED <<halls, now, schedules, photographers, checkins, confirmed>>

(* the response has been sent                                              *)
admin_alerts_return(r) ==
    /\ reqs[r].pc = "done"
    /\ reqs' = [reqs EXCEPT ![r] = [pc |-> "idle"]]
    /\ UNCHANGED <<halls, now, schedules, photographers, checkins, routes, confirmed>>

PlanDate == 1
PlanWeddingTimes == {Null, 60, 780}
PlanShoots == {Null, 600}
PlanArrivals == {Null, 660}
PlanDefaults == {Null, 30}

(* the Schedule rows the table can hold: every column but wedding_date and *)
(* venue is nullable, and travel_minutes_default is entered outside the    *)
(* handlers                                                                *)
PlanRows ==
    {[id |-> 1, wedding_date |-> PlanDate, wedding_time |-> wt,
      shoot_start_time |-> sh, arrival_target_time |-> ar,
      travel_minutes_default |-> tm, venue |-> "A", venue_address |-> va,
      main_name |-> "P", sub_name |-> NoName] :
        wt \in PlanWeddingTimes, sh \in PlanShoots, ar \in PlanArrivals,
        tm \in PlanDefaults, va \in Addresses}

StoredRoute == NewRoute({}, 1, "P", 45)

InitPlan ==
    /\ now = StartNow
    /\ schedules \in {{row} : row \in PlanRows}
    /\ photographers \in {{[PhotogP EXCEPT !.address = a]} : a \in Addresses}
    /\ checkins = {}
    /\ routes \in {{}, {StoredRoute}}
    /\ halls = {}
    /\ confirmed = {}
    /\ reqs = IdleReqs

NextPlan ==
    \/ /\ reqs = IdleReqs
       /\ schedules = {}
       /\ \E wt \in PlanWeddingTimes, sh \in PlanShoots, va \in Addresses :
             admin_import_schedules(PlanDate, wt, "A", va, sh, "P", NoName)
    \/ /\ reqs = IdleReqs
       /\ \E wt \in PlanWeddingTimes, sh \in PlanShoots, ar \in PlanArrivals,
             va \in Addresses, vra \in Addresses :
             admin_edit_schedule_save(1, PlanDate, wt, "A", va, vra, sh, ar,
                                      "P", NoName)
    \/ /\ reqs = IdleReqs
       /\ admin_delete_schedule(1)
    \/ \E answer \in Answers : admin_alerts_run(1, answer, FALSE)
    \/ admin_alerts_return(1)

SpecPlan == InitPlan /\ [][NextPlan]_vars

(* ---- two overlapping alert evaluations of one row ---------------------- *)
(* Each request has its own Session: the SELECT of step 1 is one           *)
(* statement, and the session.add / commit of step 3 comes after the       *)
(* estimator has answered; another request can run in between.             *)
RouteSelect(r, s, name, answer) ==
    /\ reqs[r].pc \in {"idle", "routed"}
    /\ reqs' = [reqs EXCEPT ![r] =
                   [pc |-> "route", schedule |-> s, name |-> name,
                    p_addr |-> AddressOf(name), answer |-> answer,
                    cached |-> SelectRoute(routes, s, name)]]
    /\ UNCHANGED <<halls, now, schedules, photographers, checkins, routes, confirmed>>

RouteFinish(r) ==
    /\ reqs[r].pc = "route"
    /\ LET q == reqs[r]
           res == RouteSteps(q.cached, routes, q.schedule, q.name, q.p_addr,
                             q.answer)
       IN  /\ routes' = res.routes
           /\ reqs' = [reqs EXCEPT ![r] =
                          [pc |-> "routed", cached |-> q.cached,
                           ret |-> res.ret, attempted |-> res.attempted]]
    /\ UNCHANGED <<halls, now, schedules, photographers, checkins, confirmed>>

InitRouteRace ==
    /\ now = StartNow
    /\ schedules \in {{row} : row \in {x \in PlanRows :
                            x.wedding_time = 780 /\ x.shoot_start_time = Null
                            /\ x.arrival_target_time = Null}}
    /\ photographers \in {{[PhotogP EXCEPT !.address = a]} : a \in Addresses}
    /\ checkins = {}
    /\ routes \in {{}, {StoredRoute}}
    /\ halls = {}
    /\ confirmed = {}
    /\ reqs = IdleReqs

NextRouteRace ==
    \/ \E r \in ReqIds, s \in schedules, answer \in Answers :
          RouteSelect(r, s, "P", answer)
    \/ \E r \in ReqIds : RouteFinish(r)

SpecRouteRace == InitRouteRace /\ [][NextRouteRace]_vars

(* ---- two overlapping confirmation requests, statement by statement ---- *)
(* check_wake and check_depart are synchronous handlers run on worker      *)
(* threads, each with its own Session.  checkins is the committed table;   *)
(* a request holds the row it loaded (cur) and the column writes it has    *)
(* not committed yet (pend).  A commit issues UPDATE ... WHERE id = pk for *)
(* the changed columns only.                                               *)
Flush(chks, pend) ==
    {[f \in DOMAIN c |->
        IF \E w \in pend : w.schedule_id = c.schedule_id
                           /\ w.photographer_name = c.photographer_name
                           /\ w.id = c.id /\ w.field = f
        THEN (CHOOSE w \in pend : w.schedule_id = c.schedule_id
                           /\ w.photographer_name = c.photographer_name
                           /\ w.id = c.id /\ w.field = f).value
        ELSE c[f]] : c \in chks}

Changes(old, new) ==
    {[schedule_id |-> old.schedule_id,
      photographer_name |-> old.photographer_name, id |-> old.id,
      field |-> f, value |-> new[f]] :
        f \in {g \in DOMAIN old : new[g] # old[g]}}

(* the handler up to its loop: user, s0, the sibling query, datetime.now() *)
ReqBegin(r, kind, user, schedule_id) ==
    /\ reqs[r].pc = "idle"
    /\ user \in photographers
    /\ HasSchedule(schedule_id)
    /\ LET s0 == GetSchedule(schedule_id)
           sibs == IF kind = "wake" THEN WakeSiblings(s0, user.name)
                   ELSE VenueSiblings(s0, user.name)
       IN  reqs' = [reqs EXCEPT ![r] =
                [pc |-> IF sibs = {} THEN "commit" ELSE "select",
                 kind |-> kind, name |-> user.name, t |-> now,
                 todo |-> sibs, cur |-> NewCheckin(0, 0, user.name),
                 pend |-> {}]]
    /\ UNCHANGED <<halls, now, schedules, photographers, checkins, routes, confirmed>>

(* get_or_create_checkin: the SELECT ... .first()                          *)
ReqSelect(r) ==
    /\ reqs[r].pc = "select"
    /\ LET q == reqs[r]
           sid == Min(q.todo)
       IN  IF MatchingCheckins(checkins, sid, q.name) # {}
           THEN reqs' = [reqs EXCEPT ![r].pc = "write",
                            ![r].cur = FirstCheckin(checkins, sid, q.name)]
           ELSE reqs' = [reqs EXCEPT ![r].pc = "insert"]
    /\ UNCHANGED <<halls, now, schedules, photographers, checkins, routes, confirmed>>

(* get_or_create_checkin: session.add(chk); commit(); refresh(chk)         *)
ReqInsert(r) ==
    /\ reqs[r].pc = "insert"
    /\ LET q == reqs[r]
           sid == Min(q.todo)
           tbl == Flush(checkins, q.pend)
       IN  /\ checkins' = InsertCheckin(tbl, sid, q.name)
           /\ reqs' = [reqs EXCEPT ![r].pc = "write", ![r].pend = {},
                  ![r].cur = NewCheckin(NextCheckinId(tbl, sid, q.name),
                                        sid, q.name)]
    /\ UNCHANGED <<halls, now, schedules, photographers, routes, confirmed>>

(* the "is None" tests and the assignments on the loaded row               *)
ReqWrite(r) ==
    /\ reqs[r].pc = "write"
    /\ LET q == reqs[r]
           new == FieldWrite(q.kind, q.cur, q.t, Null)
           rest == q.todo \ {Min(q.todo)}
       IN  reqs' = [reqs EXCEPT
                ![r].pc = IF rest = {} THEN "commit" ELSE "select",
                ![r].todo = rest,
                ![r].pend = q.pend \cup Changes(q.cur, new)]
    /\ UNCHANGED <<halls, now, schedules, photographers, checkins, routes, confirmed>>

(* the session.commit() that ends the handler                              *)
ReqCommit(r) ==
    /\ reqs[r].pc = "commit"
    /\ checkins' = Flush(checkins, reqs[r].pend)
    /\ reqs' = [reqs EXCEPT ![r] = [pc |-> "done"]]
    /\ UNCHANGED <<halls, now, schedules, photographers, routes, confirmed>>

RaceSchedules ==
    {ScheduleRow(1, 0, 780, "A", "P", NoName),
     ScheduleRow(2, 0, Null, "A", "P", NoName)}

InitRace ==
    /\ now = StartNow
    /\ schedules = RaceSchedules
    /\ photographers = {PhotogP}
    /\ checkins \in {{}, {NewCheckin(1, 1, "P")}}
    /\ routes = {}
    /\ halls = {}
    /\ confirmed = {}
    /\ reqs = IdleReqs

NextRace ==
    \/ \E r \in ReqIds, k \in {"wake", "depart"}, u \in photographers,
          sid \in SchedIds : ReqBegin(r, k, u, sid)
    \/ \E r \in ReqIds : ReqSelect(r)
    \/ \E r \in ReqIds : ReqInsert(r)
    \/ \E r \in ReqIds : ReqWrite(r)
    \/ \E r \in ReqIds : ReqCommit(r)
    \/ Tick

SpecRace == InitRace /\ [][NextRace]_vars

(* ---- the admin's writes of schedules and wedding halls, with stored ---- *)
(* ---- RouteEstimate rows and wake confirmations ------------------------- *)
HallAddresses == {"addr", "new"}

HallRow(id, v, va) ==
    [ScheduleRow(id, 0, 780, v, "P", NoName) EXCEPT !.venue_address = va]

HallTables ==
    {{HallRow(1, "A", a1), HallRow(2, v, a2)} :
        a1 \in {NoName, "addr"}, v \in Venues, a2 \in HallAddresses}

StoredRoutes == {StoredRoute, NewRoute({StoredRoute}, 2, "P", 50)}

InitHalls ==
    /\ now = StartNow
    /\ schedules \in HallTables
    /\ photographers = {PhotogP}
    /\ checkins = {}
    /\ routes \in SUBSET StoredRoutes
    /\ halls = {}
    /\ confirmed = {}
    /\ reqs = IdleReqs

NextHalls ==
    \/ \E u \in photographers, sid \in SchedIds : check_wake(u, sid)
    \/ \E s \in schedules, va \in HallAddresses \cup {NoName} :
          admin_edit_schedule_save(s.id, s.wedding_date, s.wedding_time,
                                   s.venue, va, NoName, s.shoot_start_time,
                                   s.arrival_target_time, s.main_name,
                                   s.sub_name)
    \/ \E sid \in SchedIds : admin_delete_schedule(sid)
    \/ \E ids \in SUBSET SchedIds : admin_schedules_bulk_delete(ids)
    \/ \E name \in Venues, address \in HallAddresses \cup {NoName} :
          admin_wedding_halls_create(name, address)
    \/ \E h \in halls, name \in Venues \cup {NoName},
          address \in HallAddresses \cup {NoName} :
          admin_wedding_halls_edit_save(h.id, name, address)

SpecHalls == InitHalls /\ [][NextHalls]_vars

(* ---- the admin's writes of photographers, with confirmations ---------- *)
AdminUser == [id |-> 3, name |-> "admin", address |-> NoName, is_admin |-> TRUE]

PeopleTables ==
    {{ScheduleRow(1, 0, 780, "A", "P", sb), ScheduleRow(2, 0, Null, "A", m, NoName)} :
        sb \in {NoName, "Q"}, m \in Names}

NewNames == {"Q", "R"}

InitPeople ==
    /\ now = StartNow
    /\ schedules \in PeopleTables
    /\ photographers = {PhotogP, PhotogQ, AdminUser}
    /\ checkins = {}
    /\ routes = {}
    /\ halls = {}
    /\ confirmed = {}
    /\ reqs = IdleReqs

NextPeople ==
    \/ \E u \in photographers, sid \in SchedIds : check_wake(u, sid)
    \/ \E s \in schedules, m \in {"P", NoName} :
          admin_edit_schedule_save(s.id, s.wedding_date, s.wedding_time,
                                   s.venue, NoName, NoName, s.shoot_start_time,
                                   s.arrival_target_time, m, s.sub_name)
    \/ \E p \in photographers : admin_delete_photographer(p)
    \/ \E p \in photographers, name \in NewNames :
          admin_edit_photographer_save(1, p, name)
    \/ admin_edit_photographer_save_schedules(1)

SpecPeople == InitPeople /\ [][NextPeople]_vars

(* ---- the alert evaluation over schedules inside and outside the week --- *)
(* ---- it watches, with wake confirmations ------------------------------- *)
AlertNow == DayMinutes + StartNow
AlertDates == {0, 1, 8, 9}

AlertTables ==
    {{[ScheduleRow(1, d1, 660, "A", "P", sb) EXCEPT !.venue_address = "addr"],
      ScheduleRow(2, d2, 780, "B", "Q", NoName)} :
        d1 \in AlertDates, d2 \in AlertDates, sb \in {NoName, "Q"}}

InitAlerts ==
    /\ now = AlertNow
    /\ schedules \in AlertTables
    /\ photographers = {[PhotogP EXCEPT !.address = "addr"], PhotogQ}
    /\ checkins = {}
    /\ routes \in {{}, {StoredRoute}}
    /\ halls = {}
    /\ confirmed = {}
    /\ reqs = IdleReqs

NextAlerts ==
    \/ \E u \in photographers, sid \in SchedIds : check_wake(u, sid)
    \/ \E answer \in Answers, only \in BOOLEAN :
          admin_alerts_run(1, answer, only)
    \/ admin_alerts_return(1)

SpecAlerts == InitAlerts /\ [][NextAlerts]_vars

(* ---- GET /admin/alerts/feed beside GET /admin/alerts ------------------- *)
(* faulty variant of the feed's window, used to test the properties: it    *)
(* starts on the day after today                                           *)
FeedKeys_FromTomorrow(t) ==
    UNION {{<<s.id, rn[1], rn[2]>> : rn \in {q \in Roles(s) : q[2] # NoName}} :
           s \in {x \in schedules : x.wedding_date > DateOf(t)
                                    /\ x.wedding_date <= DateOf(t) + 7}}

(* start = now.date(), end = start + 7 days, both ends included            *)
FeedKeys(t) ==
    UNION {{<<s.id, rn[1], rn[2]>> : rn \in {q \in Roles(s) : q[2] # NoName}} :
           s \in {x \in schedules : DateOf(t) <= x.wedding_date
                                    /\ x.wedding_date <= DateOf(t) + 7}}

(* strftime("%H:%M") of a time or datetime, None when there is none        *)
HourMinute(t) == IF t = Null THEN Null ELSE t % DayMinutes

(* the loop of the feed over the rows in todo, main before sub: an entry   *)
(* is appended for a row with an overdue flag                              *)
RECURSIVE FeedAlerts(_, _, _, _, _)
FeedAlerts(todo, rts, answer, t, acc) ==
    IF todo = {} THEN [alerts |-> acc, routes |-> rts]
    ELSE LET k == CHOOSE x \in todo : \A y \in todo :
                     \/ x[1] < y[1]
                     \/ x[1] = y[1] /\ RoleRank(x[2]) <= RoleRank(y[2])
             s == GetSchedule(k[1])
             role == k[2]
             name == k[3]
             res == get_cached_route_minutes(rts, s, name, AddressOf(name),
                                             answer)
             travel_mins == res.ret
             d == compute_deadlines(s, travel_mins)
             chk == MatchingCheckins(checkins, s.id, name)
             wake_ok == chk # {}
                        /\ FirstCheckin(checkins, s.id, name).wake_time # Null
             depart_ok ==
                \/ chk # {}
                   /\ FirstCheckin(checkins, s.id, name).depart_time # Null
                \/ other_ok(s, name, "depart_time")
             arrive_ok ==
                \/ chk # {}
                   /\ FirstCheckin(checkins, s.id, name).arrive_time # Null
                \/ other_ok(s, name, "arrive_time")
             wake_overdue == d.wake_deadline # Null /\ t >= d.wake_deadline
                             /\ ~ wake_ok
             depart_overdue == d.depart_deadline # Null
                               /\ t >= d.depart_deadline /\ ~ depart_ok
             arrive_overdue == d.arrival_target_dt # Null
                               /\ t >= d.arrival_target_dt /\ ~ arrive_ok
             alert == [key |-> <<s.id, name, role>>, schedule_id |-> s.id,
                       date |-> s.wedding_date, venue |-> s.venue,
                       wedding_time |-> HourMinute(s.wedding_time),
                       arrival_target |-> HourMinute(d.arrival_target_dt),
                       name |-> name, role |-> role,
                       wake_overdue |-> wake_overdue,
                       depart_overdue |-> depart_overdue,
                       arrive_overdue |-> arrive_overdue,
                       travel_mins |-> travel_mins]
         IN  FeedAlerts(todo \ {k}, res.routes, answer, t,
                        IF wake_overdue \/ depart_overdue \/ arrive_overdue
                        THEN acc \cup {alert} ELSE acc)

(* GET /admin/alerts/feed of an admin as a request: the response holds     *)
(* ok, count and alerts                                                    *)
admin_alerts_feed(r, answer) ==
    /\ reqs[r].pc = "idle"
    /\ LET res == FeedAlerts(FeedKeys(now), routes, answer, now, {})
       IN  /\ routes' = res.routes
           /\ reqs' = [reqs EXCEPT ![r] =
                          [pc |-> "fed", ok |-> TRUE,
                           count |-> Cardinality(res.alerts),
                           alerts |-> res.alerts, answer |-> answer]]
    /\ UNCHANGED <<halls, now, schedules, photographers, checkins, confirmed>>

(* the response of the feed has been sent                                  *)
admin_alerts_feed_return(r) ==
    /\ reqs[r].pc = "fed"
    /\ reqs' = [reqs EXCEPT ![r] = [pc |-> "idle"]]
    /\ UNCHANGED <<halls, now, schedules, photographers, checkins, routes, confirmed>>

FeedNows == {AlertNow, AlertNow + TickMinutes}

FeedTables ==
    {{[ScheduleRow(1, d1, 660, "A", "P", sb) EXCEPT !.venue_address = "addr"],
      ScheduleRow(2, 1, 780, v, "Q", NoName)} :
        d1 \in {0, 1, 8}, v \in Venues, sb \in {NoName, "Q"}}

InitFeed ==
    /\ now \in FeedNows
    /\ schedules \in FeedTables
    /\ photographers = {[PhotogP EXCEPT !.address = "addr"], PhotogQ}
    /\ checkins = {}
    /\ routes \in {{}, {StoredRoute}}
    /\ halls = {}
    /\ confirmed = {}
    /\ reqs = IdleReqs

NextFeed ==
    \/ /\ reqs = IdleReqs
       /\ Confirmations({PhotoJPG})
    \/ \E answer \in Answers : admin_alerts_run(1, answer, TRUE)
    \/ admin_alerts_return(1)
    \/ \E answer \in Answers : admin_alerts_feed(2, answer)
    \/ admin_alerts_feed_return(2)

SpecFeed == InitFeed /\ [][NextFeed]_vars

(* ---- route_utils: the travel estimator and the two HTTP services ------- *)
(* What _http_get_json does for one request: urlopen raises on an HTTP     *)
(* error status or an unreachable host ("error") and on a timeout          *)
(* ("timeout"); otherwise it returns the decoded body.  The bodies of the  *)
(* address search: no document, a document whose x is not a number, a      *)
(* document with coordinates.  The bodies of the directions service: no    *)
(* route, a route without a duration, a route with a duration in seconds.  *)
HttpFailures == {"error", "timeout"}
GeoReplies == HttpFailures \cup {"nodocs", "baddoc", "found"}
Durations == {0, 90, 150, 2700}
RouteReplies == HttpFailures \cup {"noroutes", "noduration", "routed"}
EstimateAddresses == {NoName, "addr"}

(* int(round(float(duration) / 60.0)): halves go to the even neighbour     *)
RoundMinutes(duration) ==
    LET q == duration \div 60
        rem == duration % 60
    IN  IF rem < 30 THEN q
        ELSE IF rem > 30 THEN q + 1
        ELSE IF q % 2 = 0 THEN q ELSE q + 1

(* geocode_kakao: Null for None, Raised when _http_get_json raises, else   *)
(* "found" for a pair of coordinates.  No request is made without an       *)
(* address or without the key.                                             *)
geocode_kakao(key, address, reply) ==
    IF address = NoName \/ ~ key THEN Null
    ELSE IF reply \in HttpFailures THEN Raised
    ELSE IF reply = "found" THEN 1
    ELSE Null

route_minutes_kakaomobility(key, reply, duration) ==
    IF ~ key THEN Null
    ELSE IF reply \in HttpFailures THEN Raised
    ELSE IF reply \in {"noroutes", "noduration"} THEN Null
    ELSE Max({1, RoundMinutes(duration)})

(* estimate_travel_minutes: both addresses are geocoded, origin first, and *)
(* an exception of a callee leaves the function at once                    *)
estimate_travel_minutes(key, origin_address, dest_address, geo_o, geo_d, route, duration) ==
    LET o == geocode_kakao(key, origin_address, geo_o)
        d == geocode_kakao(key, dest_address, geo_d)
    IN  IF o = Raised THEN Raised
        ELSE IF d = Raised THEN Raised
        ELSE IF o = Null \/ d = Null THEN Null
        ELSE route_minutes_kakaomobility(key, route, duration)

(* one call of the estimator; the result stays with the caller             *)
EstimateCall(r, key, origin_address, dest_address, geo_o, geo_d, route, duration) ==
    /\ reqs[r].pc = "idle"
    /\ reqs' = [reqs EXCEPT ![r] =
                  [pc |-> "estimated", key |-> key,
                   origin_address |-> origin_address,
                   dest_address |-> dest_address,
                   geo_o |-> geo_o, geo_d |-> geo_d, route |-> route,
                   duration |-> duration,
                   result |-> estimate_travel_minutes(key, origin_address,
                                  dest_address, geo_o, geo_d, route,
                                  duration)]]
    /\ UNCHANGED <<halls, now, schedules, photographers, checkins, routes, confirmed>>

(* the caller has taken the result                                          *)
EstimateReturn(r) ==
    /\ reqs[r].pc = "estimated"
    /\ reqs' = [reqs EXCEPT ![r] = [pc |-> "idle"]]
    /\ UNCHANGED <<halls, now, schedules, photographers, checkins, routes, confirmed>>

InitEstimate ==
    /\ now = StartNow
    /\ schedules = {}
    /\ photographers = {}
    /\ checkins = {}
    /\ routes = {}
    /\ halls = {}
    /\ confirmed = {}
    /\ reqs = IdleReqs

NextEstimate ==
    \/ \E key \in BOOLEAN, oa \in EstimateAddresses, da \in EstimateAddresses,
          go \in GeoReplies, gd \in GeoReplies, rt \in RouteReplies,
          du \in Durations :
          EstimateCall(1, key, oa, da, go, gd, rt, du)
    \/ EstimateReturn(1)

SpecEstimate == InitEstimate /\ [][NextEstimate]_vars

(* ======================= properties of the claims ===================== *)
(* The Checkin of (sid, name) as a confirmation sees it: the stored row,   *)
(* or a row with every field unset when none is stored yet.                *)
RowOf(chks, sid, name) ==
    IF MatchingCheckins(chks, sid, name) = {} THEN NewCheckin(0, sid, name)
    ELSE FirstCheckin(chks, sid, name)

Filled(old, t) == IF old = Null THEN t ELSE old

RowsOfSchedule(chks, sid) == {c \in chks : c.schedule_id = sid}

(* C1: first-write-wins.  In a sequence of wake / depart / arrive          *)
(* confirmations, a Checkin row that holds a wake_time, depart_time or     *)
(* arrive_time is still there after every step and holds the same value.   *)
C1_FirstWriteWins ==
    [][\A c \in checkins :
         \E d \in checkins' :
            /\ d.schedule_id = c.schedule_id
            /\ d.photographer_name = c.photographer_name
            /\ d.id = c.id
            /\ (c.wake_time # Null => d.wake_time = c.wake_time)
            /\ (c.depart_time # Null => d.depart_time = c.depart_time)
            /\ (c.arrive_time # Null => d.arrive_time = c.arrive_time)]_vars

(* a Checkin woken at t1 has been confirmed again (depart) at a later t2   *)
C1_Witness ==
    \E c \in checkins :
        /\ c.wake_time # Null /\ c.depart_time # Null
        /\ c.wake_time < c.depart_time

(* C2: under overlapping confirmations for the same (schedule,             *)
(* photographer) pair a timestamp that a commit has stored is never        *)
(* replaced by another request's timestamp.                                *)
C2_NoLostUpdate ==
    [][\A c \in checkins, d \in checkins' :
         (/\ d.schedule_id = c.schedule_id
          /\ d.photographer_name = c.photographer_name
          /\ d.id = c.id) =>
            /\ (c.wake_time # Null => d.wake_time = c.wake_time)
            /\ (c.depart_time # Null => d.depart_time = c.depart_time)
            /\ (c.arrive_time # Null => d.arrive_time = c.arrive_time)]_vars

(* C3: in every reachable state, also under overlapping confirmations,     *)
(* there is at most one Checkin row per (schedule_id, photographer_name).  *)
C3_OneCheckinPerPair ==
    \A c \in checkins, d \in checkins :
        (c.schedule_id = d.schedule_id
            /\ c.photographer_name = d.photographer_name) => c = d

(* C4: back-fill.  depart at t sets wake_time to t on every sibling whose  *)
(* wake_time is unset; arrive at t sets wake_time, depart_time and         *)
(* arrive_time to t where unset; wake leaves every depart_time and         *)
(* arrive_time as it was.  Each conjunct reads "the step has the stated    *)
(* effect, or it is not a step of that handler".                           *)
C4_Backfill ==
    [][\A u \in photographers, sid \in SchedIds :
         HasSchedule(sid) =>
           LET n == u.name
               s0 == GetSchedule(sid)
           IN
           /\ \/ \A b \in VenueSiblings(s0, n) :
                    RowOf(checkins', b, n).wake_time =
                        Filled(RowOf(checkins, b, n).wake_time, now)
              \/ ~ check_depart(u, sid)
           /\ \/ \A b \in VenueSiblings(s0, n) :
                    /\ RowOf(checkins', b, n).wake_time =
                           Filled(RowOf(checkins, b, n).wake_time, now)
                    /\ RowOf(checkins', b, n).depart_time =
                           Filled(RowOf(checkins, b, n).depart_time, now)
                    /\ RowOf(checkins', b, n).arrive_time =
                           Filled(RowOf(checkins, b, n).arrive_time, now)
              \/ ~ check_arrive(u, sid, PhotoJPG)
           /\ \/ \A b \in SchedIds, m \in Names :
                    /\ RowOf(checkins', b, m).depart_time =
                           RowOf(checkins, b, m).depart_time
                    /\ RowOf(checkins', b, m).arrive_time =
                           RowOf(checkins, b, m).arrive_time
              \/ ~ check_wake(u, sid)]_vars

(* an arrive on a Checkin with no earlier wake / depart: all three equal,  *)
(* next to a Checkin that a wake alone has touched                         *)
C4_Witness ==
    /\ \E c \in checkins :
          /\ c.arrive_time # Null
          /\ c.wake_time = c.arrive_time /\ c.depart_time = c.arrive_time
    /\ \E c \in checkins :
          /\ c.wake_time # Null /\ c.depart_time = Null /\ c.arrive_time = Null

(* C5: a wake by P with reference S fills wake_time on P's Checkin of      *)
(* every schedule of S's date on which P is main or sub, whatever the      *)
(* venue, and changes no Checkin of a schedule of another date.            *)
C5_WakeSiblings ==
    [][\A u \in photographers, sid \in SchedIds :
         \/ ~ HasSchedule(sid)
         \/ \A b \in schedules :
              /\ (b.wedding_date = GetSchedule(sid).wedding_date
                    /\ OnSchedule(b, u.name)) =>
                    /\ MatchingCheckins(checkins', b.id, u.name) # {}
                    /\ RowOf(checkins', b.id, u.name).wake_time =
                          Filled(RowOf(checkins, b.id, u.name).wake_time, now)
              /\ b.wedding_date # GetSchedule(sid).wedding_date =>
                    RowsOfSchedule(checkins', b.id) =
                        RowsOfSchedule(checkins, b.id)
         \/ ~ check_wake(u, sid)]_vars

(* one wake has reached two schedules of the same day at different venues  *)
C5_Witness ==
    \E c \in checkins, d \in checkins, x \in schedules, y \in schedules :
        /\ x.id = c.schedule_id /\ y.id = d.schedule_id
        /\ x.venue # y.venue /\ x.wedding_date = y.wedding_date
        /\ c.photographer_name = d.photographer_name
        /\ c.wake_time # Null /\ c.wake_time = d.wake_time
        /\ c.depart_time = Null /\ d.depart_time = Null

(* C6: a depart or arrive by P with reference S is applied to P's Checkin  *)
(* of every schedule of S's date and venue on which P is main or sub, and  *)
(* changes no Checkin of a schedule of another date or another venue.      *)
C6_VenueSiblings ==
    [][\A u \in photographers, sid \in SchedIds :
         HasSchedule(sid) =>
           LET n == u.name
               s0 == GetSchedule(sid)
               same(b) == b.wedding_date = s0.wedding_date /\ b.venue = s0.venue
           IN
           /\ \/ \A b \in schedules :
                   /\ (same(b) /\ OnSchedule(b, n)) =>
                        /\ MatchingCheckins(checkins', b.id, n) # {}
                        /\ RowOf(checkins', b.id, n).depart_time =
                              Filled(RowOf(checkins, b.id, n).depart_time, now)
                   /\ ~ same(b) =>
                        RowsOfSchedule(checkins', b.id) =
                            RowsOfSchedule(checkins, b.id)
              \/ ~ check_depart(u, sid)
           /\ \/ \A b \in schedules :
                   /\ (same(b) /\ OnSchedule(b, n)) =>
                        /\ MatchingCheckins(checkins', b.id, n) # {}
                        /\ RowOf(checkins', b.id, n).arrive_time =
                              Filled(RowOf(checkins, b.id, n).arrive_time, now)
                   /\ ~ same(b) =>
                        RowsOfSchedule(checkins', b.id) =
                            RowsOfSchedule(checkins, b.id)
              \/ ~ check_arrive(u, sid, PhotoJPG)]_vars

(* one depart has reached two schedules of one date and venue              *)
C6_Witness ==
    /\ \E c \in checkins, d \in checkins, x \in schedules, y \in schedules :
        /\ x.id = c.schedule_id /\ y.id = d.schedule_id /\ x.id # y.id
        /\ x.venue = y.venue /\ x.wedding_date = y.wedding_date
        /\ c.photographer_name = d.photographer_name
        /\ c.depart_time # Null /\ c.depart_time = d.depart_time
        /\ c.arrive_time = Null /\ d.arrive_time = Null

(* C7: in every evaluated row, k_overdue holds exactly when the deadline   *)
(* of k is defined, now has reached it and k_ok is false; a row of a       *)
(* schedule without wedding_time has no overdue flag at any instant.       *)
C7_OverdueFlags ==
    \A t \in {now, now + TickMinutes} :
      \A r \in admin_alerts(t) :
        /\ r.wake_overdue <=>
              (r.wake_deadline # Null /\ t >= r.wake_deadline /\ ~ r.wake_ok)
        /\ r.depart_overdue <=>
              (r.depart_deadline # Null /\ t >= r.depart_deadline
                 /\ ~ r.depart_ok)
        /\ r.arrive_overdue <=>
              (r.arrival_target_dt # Null /\ t >= r.arrival_target_dt
                 /\ ~ r.arrive_ok)
        /\ GetSchedule(r.schedule_id).wedding_time = Null =>
              ~ (r.wake_overdue \/ r.depart_overdue \/ r.arrive_overdue)

(* a row that is arrive-overdue exactly at its arrival target but no       *)
(* longer wake-overdue, next to an unconfirmed row without wedding_time    *)
C7_Witness ==
    /\ \E r \in admin_alerts(now) :
          /\ r.arrive_overdue /\ now = r.arrival_target_dt
          /\ r.wake_ok /\ ~ r.wake_overdue
    /\ \E r \in admin_alerts(now) :
          /\ GetSchedule(r.schedule_id).wedding_time = Null
          /\ ~ r.wake_ok /\ ~ r.wake_overdue

(* some Checkin of name on schedule sid has the timestamp                  *)
HasStamp(sid, name, field) ==
    \E c \in checkins :
        c.schedule_id = sid /\ c.photographer_name = name /\ c[field] # Null

(* some Checkin of name on a schedule of s's date and venue has it         *)
GroupStamp(s, name, field) ==
    \E x \in schedules :
        /\ x.wedding_date = s.wedding_date /\ x.venue = s.venue
        /\ HasStamp(x.id, name, field)

C10_Original ==
    \A r \in admin_alerts(now) :
        <<"wake", r.schedule_id, r.name>> \in confirmed => ~ r.wake_overdue

(* C10 amended: ... every later evaluation made while a Checkin of P for S *)
(* is stored reports wake_overdue false for that row.                      *)
C10_WakeClears ==
    \A r \in admin_alerts(now) :
        (/\ <<"wake", r.schedule_id, r.name>> \in confirmed
         /\ MatchingCheckins(checkins, r.schedule_id, r.name) # {}) =>
            ~ r.wake_overdue

(* the row is evaluated past its wake deadline after the late wake         *)
C10_Witness ==
    \E r \in admin_alerts(now) :
        /\ <<"wake", r.schedule_id, r.name>> \in confirmed
        /\ r.wake_deadline # Null /\ now >= r.wake_deadline
        /\ r.wake_ok /\ ~ r.wake_overdue

(* ---------------- deadlines and travel estimates (C11 - C20) ------------ *)
(* the rows of the evaluation whose response is being returned             *)
DoneRows ==
    UNION {reqs[r].rows : r \in {q \in ReqIds : reqs[q].pc = "done"}}

RoutesOfKey(rts, row) == MatchingRoutes(rts, row.schedule, row.name)

BothAddresses(row) ==
    row.p_addr # NoName /\ row.schedule.venue_address # NoName

(* C11: for a schedule with wedding_time set, at any time of day, and no   *)
(* arrival_target_time, arrival_target_dt is the datetime (wedding_date,   *)
(* wedding_time) minus 2 hours and wake_deadline is arrival_target_dt      *)
(* minus 2 hours.                                                          *)
C11_ArrivalTwoHoursBefore ==
    \A row \in DoneRows :
        (row.schedule.wedding_time # Null
            /\ row.schedule.arrival_target_time = Null) =>
          /\ row.d.arrival_target_dt =
                Combine(row.schedule.wedding_date, row.schedule.wedding_time)
                    - 120
          /\ row.d.wake_deadline = row.d.arrival_target_dt - 120

(* C12: with deadlines defined, a stored RouteEstimate of M minutes gives  *)
(* depart_deadline = arrival_target_dt - M; with no stored estimate, no    *)
(* manual default and no figure from the estimator, depart_deadline =      *)
(* arrival_target_dt - 60.                                                 *)
C12_DepartDeadline ==
    \A row \in DoneRows :
        row.d.arrival_target_dt # Null =>
          /\ row.cached # Null =>
                row.d.depart_deadline = row.d.arrival_target_dt - row.cached
          /\ (row.cached = Null
                /\ row.schedule.travel_minutes_default = Null
                /\ row.ret = Null) =>
                row.d.depart_deadline = row.d.arrival_target_dt - 60

(* a stored estimate of 45 minutes and an arrival target of 11:00 give a   *)
(* depart deadline of 10:15                                                *)
C12_Witness ==
    \E row \in DoneRows :
        /\ row.cached = 45
        /\ row.d.arrival_target_dt = Combine(PlanDate, 660)
        /\ row.d.depart_deadline = Combine(PlanDate, 615)

(* C13: without wedding_time the three deadlines are undefined, whatever   *)
(* arrival_target_time, shoot_start_time and the travel figure are.        *)
C13_NoWeddingTime ==
    \A row \in DoneRows :
        row.schedule.wedding_time = Null =>
          /\ row.d.arrival_target_dt = Null
          /\ row.d.wake_deadline = Null
          /\ row.d.depart_deadline = Null

(* a row without wedding_time that has the other three values              *)
C13_Witness ==
    \E row \in DoneRows :
        /\ row.schedule.wedding_time = Null
        /\ row.schedule.arrival_target_time # Null
        /\ row.schedule.shoot_start_time # Null
        /\ row.ret # Null
        /\ row.d.depart_deadline = Null

(* the schedule table after an import or an edit that posts wedding_time   *)
(* wt and leaves shoot_start_time and arrival_target_time blank            *)
SavedBlank(wt) ==
    \E va \in Addresses, vra \in Addresses :
        \/ admin_import_schedules(PlanDate, wt, "A", va, Null, "P", NoName)
        \/ admin_edit_schedule_save(1, PlanDate, wt, "A", va, vra, Null, Null,
                                    "P", NoName)

(* C14: a schedule saved with wedding_time set and the two times left      *)
(* blank stores the arrival_target_time that the deadline calculator       *)
(* derives when arrival_target_time is absent (wedding_time - 2 hours).    *)
C14_FallbacksAgree ==
    [][\A wt \in PlanWeddingTimes \ {Null} :
          SavedBlank(wt) =>
            \A s \in schedules' :
                s.wedding_time = wt =>
                  Combine(s.wedding_date, s.arrival_target_time) =
                    compute_deadlines([s EXCEPT !.arrival_target_time = Null],
                                      Null).arrival_target_dt]_vars

(* an import or an edit that posts wedding_time wt, shoot_start_time sh    *)
(* and (edit only) arrival_target_time ar; Null is a blank field           *)
Saved(wt, sh, ar) ==
    \E va \in Addresses, vra \in Addresses :
        \/ ar = Null
             /\ admin_import_schedules(PlanDate, wt, "A", va, sh, "P", NoName)
        \/ admin_edit_schedule_save(1, PlanDate, wt, "A", va, vra, sh, ar,
                                    "P", NoName)

(* C15: at import and at edit, a blank shoot_start_time with wedding_time  *)
(* set is stored as wedding_time - 1 hour; a blank arrival_target_time     *)
(* with a shoot_start_time is stored as shoot_start_time - 30 minutes      *)
(* (times of day); with neither wedding_time nor shoot_start_time a blank  *)
(* arrival_target_time is stored as absent.                                *)
C15_WriteDefaults ==
    [][\A wt \in PlanWeddingTimes, sh \in PlanShoots, ar \in PlanArrivals :
          Saved(wt, sh, ar) =>
            \A s \in schedules' :
                /\ (sh = Null /\ wt # Null) =>
                      s.shoot_start_time = (wt - 60) % DayMinutes
                /\ (ar = Null /\ s.shoot_start_time # Null) =>
                      s.arrival_target_time =
                          (s.shoot_start_time - 30) % DayMinutes
                /\ (ar = Null /\ wt = Null /\ sh = Null) =>
                      /\ s.shoot_start_time = Null
                      /\ s.arrival_target_time = Null]_vars

(* a 13:00 wedding saved with both fields blank: 12:00 and 11:30           *)
C15_Witness ==
    \E s \in schedules :
        /\ s.wedding_time = 780
        /\ s.shoot_start_time = 720
        /\ s.arrival_target_time = 690

(* C16: strict priority.  A stored RouteEstimate is returned even when     *)
(* travel_minutes_default is set; else a set travel_minutes_default is     *)
(* returned; line 170 (the estimator) is reached only when neither exists  *)
(* and both addresses are non-empty.                                       *)
C16_Priority ==
    \A row \in DoneRows :
        /\ row.cached # Null => (row.ret = row.cached /\ ~ row.attempted)
        /\ (row.cached = Null /\ row.schedule.travel_minutes_default # Null) =>
              /\ row.ret = row.schedule.travel_minutes_default
              /\ ~ row.attempted
        /\ row.attempted =>
              /\ row.cached = Null
              /\ row.schedule.travel_minutes_default = Null
              /\ BothAddresses(row)

(* a stored estimate (45) wins over a manual default (30)                  *)
C16_Witness ==
    \E row \in DoneRows :
        /\ row.cached = 45
        /\ row.schedule.travel_minutes_default = 30
        /\ BothAddresses(row)
        /\ row.ret = 45

(* C17: an evaluation leaves every table but RouteEstimate as it was, and  *)
(* a row that returns a stored estimate, the manual default or unknown     *)
(* leaves the RouteEstimate rows as they were: a manual default is not     *)
(* stored as a RouteEstimate.                                              *)
C17_WritesOnlyOnEstimate ==
    [][\A r \in ReqIds :
          (reqs[r].pc = "idle" /\ reqs'[r].pc = "done") =>
            /\ UNCHANGED <<schedules, photographers, checkins>>
            /\ \A row \in reqs'[r].rows :
                  (\/ row.cached # Null
                   \/ row.schedule.travel_minutes_default # Null
                   \/ row.ret = Null) =>
                     RoutesOfKey(routes', row) = RoutesOfKey(routes, row)
            /\ (\A row \in reqs'[r].rows :
                    \/ row.cached # Null
                    \/ row.schedule.travel_minutes_default # Null
                    \/ row.ret = Null) => routes' = routes]_vars

(* the manual default has been returned and no RouteEstimate exists        *)
C17_Witness ==
    \E row \in DoneRows :
        /\ row.cached = Null
        /\ row.schedule.travel_minutes_default = 30
        /\ row.ret = 30
        /\ BothAddresses(row)
        /\ routes = {}

(* C18: with no stored estimate, no manual default, both addresses and an  *)
(* estimator that gives M minutes, the call returns M and a RouteEstimate  *)
(* of M minutes is stored for the pair.                                    *)
C18_EstimateStored ==
    \A row \in DoneRows :
        (/\ row.cached = Null
         /\ row.schedule.travel_minutes_default = Null
         /\ BothAddresses(row)
         /\ row.answer \notin {Null, Raised}) =>
            /\ row.ret = row.answer
            /\ \E rt \in RoutesOfKey(routes, row) : rt.minutes = row.answer

(* C19: when the estimator gives nothing or raises, or an address is       *)
(* missing, the call returns unknown, stores no RouteEstimate, the         *)
(* evaluation completes and depart_deadline is arrival_target_dt - 60.     *)
C19_FailureDegrades ==
    \A r \in ReqIds :
        reqs[r].pc = "done" =>
          \A row \in reqs[r].rows :
            (/\ row.cached = Null
             /\ row.schedule.travel_minutes_default = Null
             /\ \/ ~ BothAddresses(row)
                \/ row.answer \in {Null, Raised}) =>
                /\ row.ret = Null
                /\ RoutesOfKey(routes, row) = RoutesOfKey(reqs[r].before, row)
                /\ row.d.arrival_target_dt # Null =>
                      row.d.depart_deadline = row.d.arrival_target_dt - 60

(* the service raised on a row with both addresses and defined deadlines   *)
C19_Witness ==
    \E row \in DoneRows :
        /\ row.cached = Null
        /\ row.schedule.travel_minutes_default = Null
        /\ BothAddresses(row)
        /\ row.attempted
        /\ row.answer = Raised
        /\ row.ret = Null
        /\ row.d.arrival_target_dt # Null
        /\ row.d.depart_deadline = row.d.arrival_target_dt - 60

C21_AddressChangeInvalidates ==
    [][\A s \in schedules, s2 \in schedules' :
          (s2.id = s.id /\ s2.venue_address # s.venue_address) =>
            \A r \in routes' : r.schedule_id # s.id]_vars

(* a step of a wedding-hall handler after which the hall called name       *)
(* holds the non-empty address, which the handler has propagated           *)
HallPropagated(name, address) ==
    \/ /\ \E h \in halls' : h.name = name /\ h.address = address
       /\ \E a \in HallAddresses \cup {NoName} :
             admin_wedding_halls_create(name, a)
    \/ \E h \in halls, n \in {name, NoName} :
          /\ n = NoName => h.name = name
          /\ admin_wedding_halls_edit_save(h.id, n, address)

RoutesOf(rts, sid) == {r \in rts : r.schedule_id = sid}

(* the schedules of other venues keep venue_address and RouteEstimates     *)
OtherVenuesKept(name) ==
    \A s \in schedules' :
        s.venue # name =>
          s \in schedules /\ RoutesOf(routes', s.id) = RoutesOf(routes, s.id)

(* C22 as stated: after the propagation every schedule of the hall has the *)
(* new address and no RouteEstimate; other venues are untouched.           *)
C22_Original ==
    [][\A name \in Venues, address \in HallAddresses :
          HallPropagated(name, address) =>
            /\ \A s \in schedules' :
                  s.venue = name =>
                    /\ s.venue_address = address
                    /\ RoutesOf(routes', s.id) = {}
            /\ OtherVenuesKept(name)]_vars

(* C22: after the propagation every schedule of the hall has the new       *)
(* address; when at least one of them did not hold it before, the          *)
(* RouteEstimates of all of them are deleted, and when all of them held    *)
(* it already no RouteEstimate is deleted; other venues are untouched.     *)
C22_Propagation ==
    [][\A name \in Venues, address \in HallAddresses :
          HallPropagated(name, address) =>
            LET at == {s \in schedules' : s.venue = name}
                differed == {s \in at : \E o \in schedules :
                                o.id = s.id /\ o.venue_address # address}
            IN  /\ \A s \in at : s.venue_address = address
                /\ differed # {} =>
                      \A s \in at : RoutesOf(routes', s.id) = {}
                /\ differed = {} => routes' = routes
                /\ OtherVenuesKept(name)]_vars

(* hall A holds "new", schedule 1 of venue A has got it and has lost its   *)
(* RouteEstimate, schedule 2 of venue B keeps its address and its          *)
(* RouteEstimate                                                           *)
C22_Witness ==
    /\ \E h \in halls : h.name = "A" /\ h.address = "new"
    /\ HallRow(1, "A", "new") \in schedules
    /\ HallRow(2, "B", "addr") \in schedules
    /\ RoutesOf(routes, 1) = {}
    /\ RoutesOf(routes, 2) # {}

(* C23: every Checkin and every RouteEstimate refers to an existing        *)
(* Schedule: the deletion of a schedule, single or bulk, leaves no row     *)
(* with its schedule_id.                                                   *)
C23_DeleteCascades ==
    /\ \A c \in checkins : HasSchedule(c.schedule_id)
    /\ \A r \in routes : HasSchedule(r.schedule_id)

(* C24: the deletion of a photographer named as main or sub of a schedule *)
(* is refused and leaves the Photographer, Schedule and Checkin rows as    *)
(* they were; the deletion of a non-admin photographer no schedule names   *)
(* removes the Photographer and every Checkin with that name, and nothing  *)
(* else.                                                                   *)
C24_DeletePhotographer ==
    [][\A p \in photographers :
          \/ IF \E s \in schedules : OnSchedule(s, p.name)
             THEN UNCHANGED <<photographers, schedules, checkins>>
             ELSE /\ photographers' = photographers \ {p}
                  /\ checkins' =
                        {c \in checkins : c.photographer_name # p.name}
                  /\ schedules' = schedules
          \/ ~ admin_delete_photographer(p)]_vars

(* Q, whom no schedule names any more, has been deleted with the Checkin   *)
(* of Q, while P's Checkin is still stored                                 *)
C24_Witness ==
    /\ PhotogQ \notin photographers
    /\ ~ \E p \in photographers : p.name = "Q"
    /\ ~ \E c \in checkins : c.photographer_name = "Q"
    /\ \E c \in checkins : c.photographer_name = "P"
    /\ \E s \in schedules : OnSchedule(s, "P")

(* the file names the arrive handler must turn away: none, an extension   *)
(* outside the four, a name that is only an extension, a name without one  *)
InvalidPhotos ==
    {<<>>, <<"a", ".", "g", "i", "f">>, <<".", "p", "n", "g">>,
     <<"p", "n", "g">>}

(* C25: a wake, depart or arrive confirmation with an unknown schedule id, *)
(* and an arrive confirmation without a photo or with a photo whose        *)
(* extension is not .jpg, .jpeg, .png or .webp (in any case of letters),   *)
(* creates no Checkin and changes no Checkin field; an upper-case .JPG on  *)
(* a known schedule of the user is taken.                                  *)
C25_InvalidIsNoop ==
    [][\A u \in photographers, sid \in SchedIds :
          /\ \/ HasSchedule(sid)
             \/ checkins' = checkins
             \/ ~ (\/ check_wake(u, sid)
                   \/ check_depart(u, sid)
                   \/ \E f \in Filenames : check_arrive(u, sid, f))
          /\ \A f \in InvalidPhotos :
                checkins' = checkins \/ ~ check_arrive(u, sid, f)
          /\ \/ ~ HasSchedule(sid)
             \/ ~ OnSchedule(GetSchedule(sid), u.name)
             \/ RowOf(checkins', sid, u.name).arrive_time # Null
             \/ ~ check_arrive(u, sid, PhotoJPG)]_vars

(* schedule 1 has been deleted, so that 1 is an unknown id, and P holds a  *)
(* Checkin on schedule 2 with nothing but wake_time: the confirmations of  *)
(* P that were turned away have left it so                                 *)
C25_Witness ==
    /\ ~ HasSchedule(1)
    /\ HasSchedule(2)
    /\ PhotogP \in photographers
    /\ \E c \in checkins :
          /\ c.schedule_id = 2 /\ c.photographer_name = "P"
          /\ c.wake_time # Null /\ c.depart_time = Null
          /\ c.arrive_time = Null /\ c.arrive_photo_path = Null

(* the rows that still name a photographer nm                              *)
NamedBy(scheds, chks, nm) ==
    {s.id : s \in {x \in scheds : OnSchedule(x, nm)}} \cup
    {c.schedule_id : c \in {x \in chks : x.photographer_name = nm}}

(* C26: the rename of a photographer from N to N' is atomic: the commit    *)
(* that stores N' in the Photographer row leaves no Schedule with          *)
(* main_name or sub_name N and no Checkin with photographer_name N, and    *)
(* none is left when the request has finished.                             *)
C26_RenameAtomic ==
    [][\A r \in ReqIds :
          /\ (reqs[r].pc = "idle" /\ reqs'[r].pc = "renamed") =>
                NamedBy(schedules', checkins', reqs'[r].old_name) = {}
          /\ (reqs[r].pc = "renamed" /\ reqs'[r].pc = "idle") =>
                NamedBy(schedules', checkins', reqs[r].old_name) = {}]_vars

(* the week an evaluation at instant t watches: today and the seven days  *)
(* after it                                                                *)
InWindow(s, t) ==
    s.wedding_date >= DateOf(t) /\ s.wedding_date <= DateOf(t) + 7

(* some overdue flag of (s, role, name) is set at instant t                *)
Flagged(s, role, name, t) ==
    LET a == AlertRow(s, role, name, t)
    IN  a.wake_overdue \/ a.depart_overdue \/ a.arrive_overdue

(* C27: an evaluation emits exactly one row for every (schedule, role)     *)
(* whose wedding_date lies in the window, both ends included, and whose    *)
(* role name is not empty, and no other row; with only-overdue asked for   *)
(* it emits exactly those of these rows that have an overdue flag set.     *)
C27_RowsOfWindow ==
    [][\A r \in ReqIds :
          (reqs[r].pc = "idle" /\ reqs'[r].pc = "done") =>
            LET rows == reqs'[r].rows
                only == reqs'[r].only
            IN  /\ \A row \in rows :
                      /\ row.schedule \in schedules
                      /\ InWindow(row.schedule, now)
                      /\ row.name # NoName
                      /\ <<row.role, row.name>> \in Roles(row.schedule)
                      /\ only => Flagged(row.schedule, row.role, row.name, now)
                /\ \A s \in schedules : \A rn \in Roles(s) :
                      (/\ InWindow(s, now)
                       /\ rn[2] # NoName
                       /\ only => Flagged(s, rn[1], rn[2], now)) =>
                         Cardinality({row \in rows : /\ row.schedule = s
                                                     /\ row.role = rn[1]}) = 1]_vars

(* an only-overdue response that holds the overdue main row of schedule 1 *)
(* (today) and not the row of its sub, who has confirmed wake, while       *)
(* schedule 2 is past the window                                          *)
C27_Witness ==
    /\ reqs[1].pc = "done"
    /\ reqs[1].only
    /\ \E s \in schedules : s.id = 1 /\ s.wedding_date = 1 /\ s.sub_name = "Q"
    /\ \E s \in schedules : s.id = 2 /\ s.wedding_date = 9
    /\ \E row \in reqs[1].rows : row.schedule.id = 1 /\ row.role = "main"
    /\ ~ \E row \in reqs[1].rows : row.role = "sub"

(* what a row of the response shows                                        *)
RowView(row) ==
    [schedule |-> row.schedule, role |-> row.role, name |-> row.name,
     travel_mins |-> row.ret, d |-> row.d,
     wake_overdue |-> row.wake_overdue, depart_overdue |-> row.depart_overdue,
     arrive_overdue |-> row.arrive_overdue]

(* the response of an evaluation of the current state                      *)
Response(answer, only) ==
    {RowView(row) :
        row \in OnlyRows(EvalRows(AlertKeys(now), routes, answer, {}).rows,
                         only)}

(* C28: an evaluation changes no Schedule, Checkin, Photographer or        *)
(* WeddingHall row (RouteEstimate is all it may write), and the same       *)
(* evaluation run again at the same instant on the state it leaves, the    *)
(* travel service answering as before, gives the same rows.                *)
C28_EvaluationFrame ==
    [][\A r \in ReqIds, answer \in Answers, only \in BOOLEAN :
          (/\ reqs[r].pc = "idle" /\ reqs'[r].pc = "done"
           /\ reqs'[r].answer = answer /\ reqs'[r].only = only) =>
            /\ UNCHANGED <<schedules, checkins, photographers, halls, now>>
            /\ {RowView(row) : row \in reqs'[r].rows} = Response(answer, only)
            /\ Response(answer, only)' = Response(answer, only)]_vars

(* a response with the row of a photographer who has confirmed wake and a  *)
(* row for which the travel service was asked, no RouteEstimate stored     *)
C28_Witness ==
    /\ reqs[1].pc = "done"
    /\ checkins # {}
    /\ routes = {}
    /\ \E row \in reqs[1].rows : row.attempted
    /\ \E row \in reqs[1].rows : ~ row.attempted

(* C29: an arrive by P with reference S and an accepted photo stores the  *)
(* reference of that photo as arrive_photo_path on P's Checkin of every    *)
(* schedule of S's date and venue on which P is main or sub, in place of   *)
(* an earlier one, and a set arrive_time of such a Checkin stays as it is. *)
C29_PhotoOnEverySibling ==
    [][\A u \in photographers, sid \in SchedIds :
          \/ ~ HasSchedule(sid)
          \/ \A b \in schedules :
                (/\ b.wedding_date = GetSchedule(sid).wedding_date
                 /\ b.venue = GetSchedule(sid).venue
                 /\ OnSchedule(b, u.name)) =>
                  /\ RowOf(checkins', b.id, u.name).arrive_photo_path =
                        PhotoRef(sid, now)
                  /\ RowOf(checkins', b.id, u.name).arrive_time =
                        Filled(RowOf(checkins, b.id, u.name).arrive_time, now)
          \/ ~ check_arrive(u, sid, PhotoJPG)]_vars

(* a Checkin whose photo was uploaded after its arrive_time was set        *)
C29_Witness ==
    \E c \in checkins :
        /\ c.arrive_time # Null
        /\ c.arrive_photo_path = PhotoRef(c.schedule_id, c.arrive_time + TickMinutes)

(* C30: a confirmation that creates a Checkin or writes wake_time,         *)
(* depart_time, arrive_time or arrive_photo_path of a Checkin (the wake    *)
(* back-fill of a depart included) sets updated_at of that Checkin in the  *)
(* same step.                                                              *)
C30_StampOnEveryWrite ==
    [][\A c \in checkins' :
          LET old == RowOf(checkins, c.schedule_id, c.photographer_name)
          IN  (\/ MatchingCheckins(checkins, c.schedule_id,
                                   c.photographer_name) = {}
               \/ c.wake_time # old.wake_time
               \/ c.depart_time # old.depart_time
               \/ c.arrive_time # old.arrive_time
               \/ c.arrive_photo_path # old.arrive_photo_path) =>
                c.updated_at = now]_vars

(* a depart at the second instant has back-filled wake_time on a Checkin   *)
(* it created, next to a Checkin of the first instant                      *)
C30_Witness ==
    /\ \E c \in checkins :
          /\ c.wake_time = StartNow + TickMinutes
          /\ c.depart_time = c.wake_time
          /\ c.arrive_time = Null
          /\ c.updated_at = c.wake_time
    /\ \E c \in checkins : c.updated_at = StartNow

(* ------------------ the travel estimator (C31) ------------------------- *)
(* C31: estimate_travel_minutes never raises: without the key, with an     *)
(* empty address, on a geocoding or routing miss, on an HTTP error and on  *)
(* a timeout its result is None.                                           *)
C31_EstimatorNeverRaises ==
    \A r \in ReqIds :
        reqs[r].pc = "estimated" =>
          /\ reqs[r].result # Raised
          /\ (\/ ~ reqs[r].key
              \/ reqs[r].origin_address = NoName
              \/ reqs[r].dest_address = NoName
              \/ reqs[r].geo_o # "found"
              \/ reqs[r].geo_d # "found"
              \/ reqs[r].route # "routed") => reqs[r].result = Null

(* ------------------ stages of a Checkin (C32, C33) --------------------- *)
(* C32: in every state reached by wake, depart and arrive confirmations a  *)
(* Checkin with arrive_time has depart_time, and a Checkin with            *)
(* depart_time has wake_time.                                              *)
C32_StageImplication ==
    \A c \in checkins :
        /\ c.arrive_time # Null => c.depart_time # Null
        /\ c.depart_time # Null => c.wake_time # Null

(* an arrive at the second instant has filled depart_time on a Checkin     *)
(* whose wake_time is of the first instant                                 *)
C32_Witness ==
    \E c \in checkins :
        /\ c.wake_time = StartNow
        /\ c.depart_time = StartNow + TickMinutes
        /\ c.arrive_time = c.depart_time

(* C33: with a clock that never goes back, every Checkin has              *)
(* wake_time <= depart_time <= arrive_time for the timestamps that are set. *)
C33_StageOrder ==
    \A c \in checkins :
        /\ (c.wake_time # Null /\ c.depart_time # Null)
              => c.wake_time <= c.depart_time
        /\ (c.depart_time # Null /\ c.arrive_time # Null)
              => c.depart_time <= c.arrive_time
        /\ (c.wake_time # Null /\ c.arrive_time # Null)
              => c.wake_time <= c.arrive_time

(* ------------------ ok flags of the evaluator (C34) -------------------- *)
(* C34: in every row of the evaluator arrive_ok implies depart_ok and      *)
(* depart_ok implies wake_ok, in every state reached by confirmations and  *)
(* the admin's schedule edits.                                             *)
C34_OkFlagsNested ==
    \A row \in admin_alerts(now) :
        /\ row.arrive_ok => row.depart_ok
        /\ row.depart_ok => row.wake_ok

(* the half of C34 the code keeps: arrive_ok implies depart_ok             *)
C34_ArriveImpliesDepart ==
    \A row \in admin_alerts(now) : row.arrive_ok => row.depart_ok

(* ------------------ frame of a confirmation (C35) ---------------------- *)
(* the callers of a confirmation: the stored users, an admin session and a *)
(* request without a session user                                          *)
Callers ==
    photographers \cup {AdminUser,
        [id |-> 0, name |-> NoName, address |-> NoName, is_admin |-> FALSE]}

IsConfirmationBy(u) ==
    \E sid \in SchedIds :
        \/ check_wake(u, sid)
        \/ check_depart(u, sid)
        \/ \E f \in Filenames : check_arrive(u, sid, f)

FrameOf(u) ==
    /\ u \in photographers /\ ~ u.is_admin
    /\ \A c \in checkins' \ checkins :
          /\ c.photographer_name = u.name
          /\ HasSchedule(c.schedule_id)
          /\ OnSchedule(GetSchedule(c.schedule_id), u.name)
    /\ \A c \in checkins :
          /\ c.photographer_name # u.name => c \in checkins'
          /\ \E d \in checkins' : /\ d.id = c.id
                                  /\ d.schedule_id = c.schedule_id
                                  /\ d.photographer_name = c.photographer_name

(* C35: a confirmation creates or changes only Checkins that carry the     *)
(* acting user's name and belong to a schedule the user is main or sub of  *)
(* at that moment, whatever the reference schedule; the Checkins of every  *)
(* other photographer stay as they are; a step that changes the tables is  *)
(* never the confirmation of an admin or of a caller without a user.       *)
C35_ConfirmationFrame ==
    [][\A u \in Callers : FrameOf(u) \/ ~ IsConfirmationBy(u)]_vars

(* Q has departed through a reference schedule and holds a Checkin on      *)
(* schedule 2 only, beside a Checkin of P that has wake_time alone          *)
C35_Witness ==
    /\ \E c \in checkins : /\ c.photographer_name = "Q"
                           /\ c.schedule_id = 2
                           /\ c.depart_time # Null
    /\ \A c \in checkins : c.photographer_name = "Q" => c.schedule_id = 2
    /\ \E c \in checkins : /\ c.photographer_name = "P"
                           /\ c.wake_time # Null
                           /\ c.depart_time = Null

(* ------------------ the feed and the page (C36) ------------------------ *)
FeedView(alerts) ==
    {[schedule_id |-> a.schedule_id, role |-> a.role, name |-> a.name,
      wake_overdue |-> a.wake_overdue, depart_overdue |-> a.depart_overdue,
      arrive_overdue |-> a.arrive_overdue] : a \in alerts}

PageView(rows) ==
    {[schedule_id |-> row.schedule.id, role |-> row.role, name |-> row.name,
      wake_overdue |-> row.wake_overdue, depart_overdue |-> row.depart_overdue,
      arrive_overdue |-> row.arrive_overdue] : row \in rows}

(* the rows of GET /admin/alerts?only=1 on the current state               *)
PageOnly(answer) ==
    OnlyRows(EvalRows(AlertKeys(now), routes, answer, {}).rows, TRUE)

(* C36: on one state and one instant the rows of the feed, as (schedule    *)
(* id, role, name) with the three overdue flags, are the rows of the page  *)
(* with only=1, and the feed's count is the number of those rows.          *)
C36_FeedMatchesPage ==
    [][\A r \in ReqIds, answer \in Answers :
          (/\ reqs[r].pc = "idle" /\ reqs'[r].pc = "fed"
           /\ reqs'[r].answer = answer) =>
            /\ FeedView(reqs'[r].alerts) = PageView(PageOnly(answer))
            /\ reqs'[r].count = Cardinality(PageOnly(answer))]_vars

(* the feed and the page have both answered on one state, with the row of  *)
(* a photographer who has departed, overdue for arrive alone, and a row    *)
(* that is overdue for wake                                                *)
C36_Witness ==
    /\ reqs[1].pc = "done" /\ reqs[2].pc = "fed"
    /\ reqs[2].count = 2
    /\ FeedView(reqs[2].alerts) = PageView(reqs[1].rows)
    /\ \E a \in reqs[2].alerts : a.arrive_overdue /\ ~ a.depart_overdue
    /\ \E a \in reqs[2].alerts : a.wake_overdue
    /\ checkins # {}

(* ------------------ ok flags over time (C37) --------------------------- *)
(* the rows an evaluation of the current state reports                     *)
RowKeys == UNION {{<<s, rn[1], rn[2]>> : rn \in {q \in Roles(s) : q[2] # NoName}} : s \in schedules}

(* C37: while only confirmations and evaluations happen and time passes, a *)
(* row (schedule, role, name) whose wake_ok, depart_ok or arrive_ok an     *)
(* evaluation reports true has that flag true in every later evaluation,   *)
(* and the overdue flag of that stage is not reported again.               *)
C37_OkIsStable ==
    [][\A k \in RowKeys :
          LET before == AlertRow(k[1], k[2], k[3], now)
          IN  \/ ~ (before.wake_ok \/ before.depart_ok \/ before.arrive_ok)
              \/ \A after \in {AlertRow(k[1], k[2], k[3], now)'} :
                    /\ ~ before.wake_ok
                          \/ (after.wake_ok /\ ~ after.wake_overdue)
                    /\ ~ before.depart_ok
                          \/ (after.depart_ok /\ ~ after.depart_overdue)
                    /\ ~ before.arrive_ok
                          \/ (after.arrive_ok /\ ~ after.arrive_overdue)]_vars

(* after the deadlines of schedule 1 a row is ok for wake through a wake   *)
(* of the first instant, another confirmation has followed, and a row of   *)
(* the same evaluation is still overdue                                    *)
C37_Witness ==
    /\ now = StartNow + TickMinutes
    /\ \E c \in checkins : c.wake_time = StartNow /\ c.updated_at = now
    /\ \E row \in admin_alerts(now) :
          row.wake_ok /\ row.wake_deadline # Null /\ now >= row.wake_deadline
    /\ \E row \in admin_alerts(now) : row.arrive_overdue

====
